---- MODULE Spec2Model ----
(***************************************************************************)
(* A model of the engine core of sballan/space-invaders: the entity        *)
(* registry (EntityManager), the system scheduler (SystemManager), the     *)
(* collision engine (CollisionSystem) and the sprite batcher (Renderer).   *)
(* Each subsystem has its own specification over the shared variables.     *)
(***************************************************************************)
EXTENDS Integers, Sequences, FiniteSets, TLC

\* ------------------------------------------------------------------------
\* Bounds of the model
\* ------------------------------------------------------------------------

\* Number of Entity objects one behaviour may allocate (new Entity(id)).
MaxEntities == 3

\* Number of colliders a scene of the collision specification may hold.
MaxColliders == 3

\* Number of CollisionSystem.update passes one behaviour may run.
MaxPasses == 1

\* Size of the invader formation; 5 rows of 11 in the source (config.ts,
\* lines 25 and 26).
FormationRows == 1

FormationCols == 2

\* Number of collision passes a behaviour of the game specification may run.
MaxFrames == 2

\* Number of bullets placed in the scene of a started game.
MaxBullets == 2

\* Capacity of the sprite batch; 1000 in the source (renderer.ts, line 79),
\* scaled down so that full batches are reached.
MAX_SPRITES == 3

\* Number of Renderer calls that may follow one begin().
MaxCalls == 6

VERTICES_PER_SPRITE == 4

INDICES_PER_SPRITE == 6

\* ------------------------------------------------------------------------
\* State
\* ------------------------------------------------------------------------

VARIABLES
  entities,      \* EntityManager.entities: the Map in insertion order, a
                 \* sequence of Entity objects [id, obj, active, components]
  nextEntityId,  \* EntityManager.nextEntityId
  deadEntities,  \* EntityManager.deadEntities: a set of ids
  heapNext,      \* identity of the next Entity object that `new` allocates
  systems,       \* SystemManager.systems: the Map in insertion order, a
                 \* sequence of System objects [name, priority, enabled]
  sortedSystems, \* SystemManager.sortedSystems: the names in execution order
  frame,         \* the SystemManager.update call in progress, or the last one
  cellSize,           \* CollisionSystem.cellSize, in world units
  collisionHandlers,  \* CollisionSystem.collisionHandlers: key -> handler
  spatialGrid,        \* CollisionSystem.spatialGrid: the cells in insertion
                      \* order, each [key, entities (ids in push order)]
  collisionChecks,    \* CollisionSystem.collisionChecks
  collisionsDetected, \* CollisionSystem.collisionsDetected
  pass,          \* what the last CollisionSystem.update did: the entities
                 \* before it, the pairs tested, the collision events
  vertexData,      \* Renderer.vertexData: vertices pending in the batch
  indexData,       \* Renderer.indexData: indices pending in the batch
  currentTexture,  \* Renderer.currentTexture, NoTexture for null
  renderCalls,     \* Renderer.renderCalls
  spritesRendered, \* Renderer.spritesRendered
  batch,         \* the texture of each sprite pending in the vertex arena
  drawLog,       \* the drawElements calls since begin(): the texture bound
                 \* and the sprites covered
  script,        \* the Renderer calls since the last begin(), begin first
  invaderFormation, \* SpaceInvadersGame.invaderFormation: [entityId, row, col]
  score,            \* SpaceInvadersGame.score
  lives,            \* SpaceInvadersGame.lives
  level,            \* SpaceInvadersGame.level
  gameStarted,      \* SpaceInvadersGame.gameStarted
  credits,       \* the score credits given so far, each [obj, points]
  issued,        \* the ids the creation calls returned, in call order
                 \* (kept by the specification of the id counter only)
  gameState,     \* GameEngine.gameState
  deltaTime,     \* GameEngine.deltaTime, the argument of SystemManager.update
  frameCount,    \* GameEngine.frameCount
  lastOp         \* the operation that produced the current state

emVars == <<entities, nextEntityId, deadEntities, heapNext>>

smVars == <<systems, sortedSystems, frame>>

colVars ==
  <<cellSize, collisionHandlers, spatialGrid,
    collisionChecks, collisionsDetected, pass>>

renVars ==
  <<vertexData, indexData, currentTexture, renderCalls, spritesRendered,
    batch, drawLog, script>>

gameVars == <<invaderFormation, score, lives, level, gameStarted, credits>>

engVars == <<gameState, deltaTime, frameCount>>

vars ==
  <<entities, nextEntityId, deadEntities, heapNext,
    systems, sortedSystems, frame,
    cellSize, collisionHandlers, spatialGrid,
    collisionChecks, collisionsDetected, pass,
    vertexData, indexData, currentTexture, renderCalls, spritesRendered,
    batch, drawLog, script,
    invaderFormation, score, lives, level, gameStarted, credits, issued,
    gameState, deltaTime, frameCount, lastOp>>

Op(name, arg) == [name |-> name, arg |-> arg]

\* ------------------------------------------------------------------------
\* Components (component.ts): data records, keyed on an entity by their type
\* ------------------------------------------------------------------------

createPosition(x, y) ==
  [type |-> "position", x |-> x, y |-> y, previousX |-> x, previousY |-> y]

createVelocity(vx, vy, maxSpeed) ==
  [type |-> "velocity", vx |-> vx, vy |-> vy, maxSpeed |-> maxSpeed]

\* The components the entity-registry specification attaches.
RegistryComponents ==
  { createPosition(10, 10), createVelocity(5, 5, 100) }

RegistryKinds == { c.type : c \in RegistryComponents }

\* A component kind no entity ever holds.
UnknownKind == "nonexistent"

\* ------------------------------------------------------------------------
\* Entity (entity.ts): components is the Map type -> component, a function
\* whose domain is the set of kinds the entity holds
\* ------------------------------------------------------------------------

NoComponents == [k \in {} |-> 0]

NewEntity(id, obj) ==
  [id |-> id, obj |-> obj, active |-> TRUE, components |-> NoComponents]

Entity_addComponent_keepsFirst(e, c) ==
  [e EXCEPT !.components =
     [k \in (DOMAIN e.components) \cup {c.type} |->
        IF k \in DOMAIN e.components THEN e.components[k] ELSE c]]

Entity_addComponent(e, c) ==
  [e EXCEPT !.components =
     [k \in (DOMAIN e.components) \cup {c.type} |->
        IF k = c.type THEN c ELSE e.components[k]]]

Entity_removeComponent(e, kind) ==
  [e EXCEPT !.components =
     [k \in (DOMAIN e.components) \ {kind} |-> e.components[k]]]

hasComponent(e, kind) == kind \in DOMAIN e.components

\* only used where hasComponent(e, kind); undefined otherwise
getComponent(e, kind) == e.components[kind]

\* Array.from(this.components.values()), as the list in some order
getAllComponents(e) ==
  LET kinds == DOMAIN e.components
      order == CHOOSE f \in [1..Cardinality(kinds) -> kinds] :
                 \A i, j \in 1..Cardinality(kinds) : i # j => f[i] # f[j]
  IN  [i \in 1..Cardinality(kinds) |-> e.components[order[i]]]

\* componentTypes is the rest-parameter list of the call
hasComponents(e, componentTypes) ==
  \A i \in 1..Len(componentTypes) : hasComponent(e, componentTypes[i])

Entity_destroy_keepsComponents(e) == [e EXCEPT !.active = FALSE]

Entity_destroy(e) ==
  [e EXCEPT !.active = FALSE, !.components = NoComponents]

\* ------------------------------------------------------------------------
\* EntityManager (entity.ts): queries
\* ------------------------------------------------------------------------

Indices(id) == { i \in 1..Len(entities) : entities[i].id = id }

HasEntity(id) == Indices(id) # {}

\* this.entities.get(id); only used where HasEntity(id)
getEntity(id) == entities[CHOOSE i \in Indices(id) : TRUE]

getAllEntities == entities

IsActive(e) == e.active

getActiveEntities_all == entities

getActiveEntities == SelectSeq(entities, IsActive)

getEntitiesWithComponents(componentTypes) ==
  LET Has(e) == hasComponents(e, componentTypes)
  IN  SelectSeq(getActiveEntities, Has)

\* ------------------------------------------------------------------------
\* EntityManager (entity.ts): operations
\* ------------------------------------------------------------------------

Range(s) == { s[i] : i \in 1..Len(s) }

\* The Map with the entries of the given ids deleted, order kept.
MapDelete(m, ids) ==
  LET Keep(e) == e.id \notin ids IN SelectSeq(m, Keep)

\* The Map with the entity of the given id replaced in place.
MapUpdate(m, id, e) ==
  [i \in 1..Len(m) |-> IF m[i].id = id THEN e ELSE m[i]]

EntityManager_createEntity_sameId ==
  /\ heapNext <= MaxEntities
  /\ entities' = Append(entities, NewEntity(nextEntityId, heapNext))
  /\ nextEntityId' = nextEntityId
  /\ heapNext' = heapNext + 1
  /\ lastOp' = Op("createEntity", 0)
  /\ UNCHANGED deadEntities

EntityManager_createEntity ==
  /\ heapNext <= MaxEntities
  /\ entities' = Append(entities, NewEntity(nextEntityId, heapNext))
  /\ nextEntityId' = nextEntityId + 1
  /\ heapNext' = heapNext + 1
  /\ lastOp' = Op("createEntity", 0)
  /\ UNCHANGED deadEntities

\* entity.addComponent(c) on an entity the caller got from the manager
Entity_addComponentCall(id, c) ==
  /\ HasEntity(id)
  /\ entities' = MapUpdate(entities, id, Entity_addComponent(getEntity(id), c))
  /\ lastOp' = Op("addComponent", 0)
  /\ UNCHANGED <<nextEntityId, deadEntities, heapNext>>

Entity_removeComponentCall(id, kind) ==
  /\ HasEntity(id)
  /\ entities' =
       MapUpdate(entities, id, Entity_removeComponent(getEntity(id), kind))
  /\ lastOp' = Op("removeComponent", 0)
  /\ UNCHANGED <<nextEntityId, deadEntities, heapNext>>

\* entity.destroy() called directly on an entity, not through the manager
Entity_destroyCall(id) ==
  /\ HasEntity(id)
  /\ entities' = MapUpdate(entities, id, Entity_destroy(getEntity(id)))
  /\ lastOp' = Op("destroy", 0)
  /\ UNCHANGED <<nextEntityId, deadEntities, heapNext>>

DestroyedMap_notQueued(m, dead, id) == [map |-> MapUpdate(m, id, Entity_destroy(getEntity(id))), dead |-> dead]

\* The Map and the dead set after destroyEntity(id) found the entity.
DestroyedMap(m, dead, id) ==
  [map  |-> MapUpdate(m, id, Entity_destroy(getEntity(id))),
   dead |-> dead \cup {id}]

EntityManager_destroyEntity_queuesUnknown(id) ==
  /\ IF HasEntity(id)
       THEN LET r == DestroyedMap(entities, deadEntities, id)
            IN  /\ entities' = r.map
                /\ deadEntities' = r.dead
       ELSE /\ deadEntities' = deadEntities \cup {id}
            /\ UNCHANGED entities
  /\ lastOp' = Op("destroyEntity", id)
  /\ UNCHANGED <<nextEntityId, heapNext>>

\* getEntity(id) called by a user of the manager: the id when an entity was
\* returned, 0 for undefined
EntityManager_getEntityCall(id) ==
  /\ lastOp' = Op("getEntity", IF HasEntity(id) THEN getEntity(id).id ELSE 0)
  /\ UNCHANGED emVars

\* The loop of getClosestEntity over the entities left, best being the
\* closest so far: [entity |-> 0] while closestDistanceSquared is Infinity.
RECURSIVE ClosestIn_lastWins(_, _, _, _)
ClosestIn_lastWins(list, x, y, best) ==
  IF list = <<>> THEN best.entity
  ELSE LET position == Head(list).components["position"]
           dx == position.x - x
           dy == position.y - y
           distanceSquared == dx * dx + dy * dy
       IN  ClosestIn_lastWins(Tail(list), x, y,
             IF best.entity = 0 \/ distanceSquared <= best.distanceSquared
               THEN [entity |-> Head(list).id,
                     distanceSquared |-> distanceSquared]
               ELSE best)

RECURSIVE ClosestIn(_, _, _, _)
ClosestIn(list, x, y, best) ==
  IF list = <<>> THEN best.entity
  ELSE LET position == Head(list).components["position"]
           dx == position.x - x
           dy == position.y - y
           distanceSquared == dx * dx + dy * dy
       IN  ClosestIn(Tail(list), x, y,
             IF best.entity = 0 \/ distanceSquared < best.distanceSquared
               THEN [entity |-> Head(list).id,
                     distanceSquared |-> distanceSquared]
               ELSE best)

getClosestEntity_lastWins(x, y, requiredComponents) ==
  ClosestIn_lastWins(
    getEntitiesWithComponents(<<"position">> \o requiredComponents),
    x, y, [entity |-> 0, distanceSquared |-> 0])

\* getClosestEntity(x, y, ...requiredComponents): the id of the entity
\* returned, 0 for undefined
getClosestEntity(x, y, requiredComponents) ==
  ClosestIn(getEntitiesWithComponents(<<"position">> \o requiredComponents),
            x, y, [entity |-> 0, distanceSquared |-> 0])

EntityManager_getClosestEntityCall(x, y, requiredComponents) ==
  /\ lastOp' = Op("getClosestEntity",
                  [x |-> x, y |-> y, kinds |-> requiredComponents,
                   result |-> getClosestEntity(x, y, requiredComponents)])
  /\ UNCHANGED emVars

EntityManager_destroyEntity(id) ==
  /\ IF HasEntity(id)
       THEN LET r == DestroyedMap(entities, deadEntities, id)
            IN  /\ entities' = r.map
                /\ deadEntities' = r.dead
       ELSE UNCHANGED <<entities, deadEntities>>
  /\ lastOp' = Op("destroyEntity", id)
  /\ UNCHANGED <<nextEntityId, heapNext>>

EntityManager_removeEntity(id) ==
  /\ entities' = MapDelete(entities, {id})
  /\ deadEntities' = deadEntities \ {id}
  /\ lastOp' = Op("removeEntity", 0)
  /\ UNCHANGED <<nextEntityId, heapNext>>

CleanedMap_keepsAll(m, dead) == m

\* The Map after cleanup() deleted every id of the dead set.
CleanedMap(m, dead) == MapDelete(m, dead)

\* The objects cleanup() drops from the Map.
Dropped(m, dead) == { e.obj : e \in { x \in Range(m) : x.id \in dead } }

EntityManager_cleanup ==
  /\ entities' = CleanedMap(entities, deadEntities)
  /\ deadEntities' = {}
  /\ lastOp' = Op("cleanup", Dropped(entities, deadEntities))
  /\ UNCHANGED <<nextEntityId, heapNext>>

EntityManager_clear ==
  /\ entities' = <<>>
  /\ deadEntities' = {}
  /\ nextEntityId' = 1
  /\ lastOp' = Op("clear", 0)
  /\ UNCHANGED heapNext

\* ------------------------------------------------------------------------
\* SystemManager (system.ts)
\* ------------------------------------------------------------------------

\* The System objects the scheduler specification registers: two of equal
\* priority and one that runs before both. A system is constructed enabled.
SystemCatalogue ==
  { [name |-> "a", priority |-> 10, enabled |-> TRUE],
    [name |-> "b", priority |-> 10, enabled |-> TRUE],
    [name |-> "c", priority |-> 5,  enabled |-> TRUE] }

SystemNames == { sys.name : sys \in SystemCatalogue }

Registered(name) == \E i \in 1..Len(systems) : systems[i].name = name

SystemOf(name) == systems[CHOOSE i \in 1..Len(systems) : systems[i].name = name]

\* Array.prototype.sort with (a, b) => a.priority - b.priority is stable: x is
\* placed behind every element whose priority is not above its own.
RECURSIVE InsertByPriority(_, _)
InsertByPriority(sorted, x) ==
  IF sorted = <<>> THEN <<x>>
  ELSE IF sorted[Len(sorted)].priority <= x.priority
         THEN Append(sorted, x)
         ELSE Append(InsertByPriority(SubSeq(sorted, 1, Len(sorted) - 1), x),
                     sorted[Len(sorted)])

RECURSIVE SortByPriority(_)
SortByPriority(list) ==
  IF list = <<>> THEN <<>>
  ELSE InsertByPriority(SortByPriority(SubSeq(list, 1, Len(list) - 1)),
                        list[Len(list)])

Names(list) == [i \in 1..Len(list) |-> list[i].name]

sortSystems_unsorted(map) == Names(map)

\* sortSystems(): Array.from(this.systems.values()).sort(by priority)
sortSystems(map) == Names(SortByPriority(map))

\* Map.set without the test: the system takes the place of the one of its
\* name, the order is rebuilt, initialize is called.
SystemManager_registerSystem_replaces(sys) ==
  /\ frame.pc = "idle"
  /\ systems' = IF Registered(sys.name)
                  THEN [i \in 1..Len(systems) |->
                          IF systems[i].name = sys.name THEN sys ELSE systems[i]]
                  ELSE Append(systems, sys)
  /\ sortedSystems' = sortSystems(systems')
  /\ lastOp' = Op("registerSystem", {sys.name})
  /\ UNCHANGED frame

\* The argument of the call in lastOp is the set of the systems whose
\* initialize was called.
SystemManager_registerSystem(sys) ==
  /\ frame.pc = "idle"
  /\ IF Registered(sys.name)
       THEN \* throws before anything is changed
            /\ UNCHANGED <<systems, sortedSystems>>
            /\ lastOp' = Op("registerSystemThrew", {})
       ELSE /\ systems' = Append(systems, sys)
            /\ sortedSystems' = sortSystems(systems')
            /\ lastOp' = Op("registerSystem", {sys.name})
  /\ UNCHANGED frame

SystemManager_unregisterSystem(name) ==
  /\ frame.pc = "idle"
  /\ IF Registered(name)
       THEN LET Keep(x) == x.name # name
            IN  /\ systems' = SelectSeq(systems, Keep)
                /\ sortedSystems' = sortSystems(systems')
       ELSE UNCHANGED <<systems, sortedSystems>>
  /\ lastOp' = Op("unregisterSystem", 0)
  /\ UNCHANGED frame

SystemManager_setSystemEnabled(name, enabled) ==
  /\ frame.pc = "idle"
  /\ IF Registered(name)
       THEN systems' = [i \in 1..Len(systems) |->
                          IF systems[i].name = name
                            THEN [systems[i] EXCEPT !.enabled = enabled]
                            ELSE systems[i]]
       ELSE UNCHANGED systems
  /\ lastOp' = Op("setSystemEnabled", 0)
  /\ UNCHANGED <<sortedSystems, frame>>

\* What a system's update does to the registry: nothing, create an entity,
\* or destroy one through destroyEntity; and it returns or throws.
SystemEffects == {"none", "create", "destroyEntity"}

UpdateEvent(name, threw) == [call |-> "update", name |-> name, threw |-> threw]

CleanupEvent == [call |-> "cleanup", name |-> "", threw |-> FALSE]

IdleFrame == [pc |-> "idle", i |-> 0, calls |-> <<>>, escaped |-> FALSE]

\* update(deltaTime) is entered: the for-of loop starts on sortedSystems.
SystemManager_updateBegin ==
  /\ frame.pc = "idle"
  /\ frame' = [pc |-> "loop", i |-> 1, calls |-> <<>>, escaped |-> FALSE]
  /\ lastOp' = Op("updateBegin", 0)
  /\ UNCHANGED <<systems, sortedSystems>>
  /\ UNCHANGED emVars

AfterSystemUpdate_rethrows(threw) == IF threw THEN "escape" ELSE "continue"

\* try { system.update(...) } catch (error) { console.error(...) }: the loop
\* goes on to the next system whether the update returned or threw.
AfterSystemUpdate(threw) == "continue"

\* One iteration of the loop: the system at the cursor, if enabled, has its
\* update called, with the given effect and outcome.
SystemManager_updateSystem(effect, id, threw) ==
  /\ frame.pc = "loop"
  /\ frame.i <= Len(sortedSystems)
  /\ LET sys == SystemOf(sortedSystems[frame.i])
     IN  IF sys.enabled
           THEN /\ CASE effect = "create" ->
                          /\ heapNext <= MaxEntities
                          /\ entities' =
                               Append(entities, NewEntity(nextEntityId, heapNext))
                          /\ nextEntityId' = nextEntityId + 1
                          /\ heapNext' = heapNext + 1
                          /\ UNCHANGED deadEntities
                     [] effect = "destroyEntity" ->
                          /\ HasEntity(id)
                          /\ LET r == DestroyedMap(entities, deadEntities, id)
                             IN  /\ entities' = r.map
                                 /\ deadEntities' = r.dead
                          /\ UNCHANGED <<nextEntityId, heapNext>>
                     [] OTHER -> UNCHANGED emVars
                /\ IF AfterSystemUpdate(threw) = "continue"
                     THEN frame' =
                            [frame EXCEPT !.i = @ + 1,
                               !.calls = Append(@, UpdateEvent(sys.name, threw))]
                     ELSE frame' =
                            [frame EXCEPT !.pc = "idle", !.escaped = TRUE,
                               !.calls = Append(@, UpdateEvent(sys.name, threw))]
           ELSE /\ effect = "none" /\ ~threw
                /\ frame' = [frame EXCEPT !.i = @ + 1]
                /\ UNCHANGED emVars
  /\ lastOp' = Op("updateSystem", 0)
  /\ UNCHANGED <<systems, sortedSystems>>

EndOfUpdate_noCleanup(calls) == calls

\* The calls of an update once the loop is over: entityManager.cleanup().
EndOfUpdate(calls) == Append(calls, CleanupEvent)

\* The loop is over: this.entityManager.cleanup(), and update returns.
SystemManager_updateEnd ==
  /\ frame.pc = "loop"
  /\ frame.i > Len(sortedSystems)
  /\ entities' = CleanedMap(entities, deadEntities)
  /\ deadEntities' = {}
  /\ frame' = [frame EXCEPT !.pc = "idle", !.calls = EndOfUpdate(@)]
  /\ lastOp' = Op("update", Dropped(entities, deadEntities))
  /\ UNCHANGED <<nextEntityId, heapNext>>
  /\ UNCHANGED <<systems, sortedSystems>>

InitSM ==
  /\ systems = <<>>
  /\ sortedSystems = <<>>
  /\ frame = IdleFrame

\* ------------------------------------------------------------------------
\* Components of the collision engine's entities (component.ts)
\* ------------------------------------------------------------------------

\* Lengths are integers in model units, Unit of them to one world unit, so
\* that every halving the engine does in MaxPasses passes is exact.
MaxPairs == (MaxColliders * (MaxColliders - 1)) \div 2

Unit == 2 ^ (MaxPasses * MaxPairs + 1)

World(n) == n * Unit

Half(n) == n \div 2

createCollision(width, height, layers, mask) ==
  [type |-> "collision", width |-> width, height |-> height,
   offsetX |-> 0, offsetY |-> 0, layers |-> layers, mask |-> mask,
   isTrigger |-> FALSE, enabled |-> TRUE]

\* ComponentFactory.createCollision as a caller calls it: args holds width
\* and height and, when the caller passes them, layers and mask; a parameter
\* the caller leaves out (or passes undefined) takes its default ["default"].
createCollisionCall(args) ==
  createCollision(args.width, args.height,
                  IF "layers" \in DOMAIN args THEN args.layers ELSE {"default"},
                  IF "mask" \in DOMAIN args THEN args.mask ELSE {"default"})

createHealth(maxHealth) ==
  [type |-> "health", current |-> maxHealth, maximum |-> maxHealth,
   invulnerable |-> FALSE, invulnerabilityTime |-> 0]

createWeapon(fireRate, maxBullets, bulletSpeed, damage) ==
  [type |-> "weapon", fireRate |-> fireRate, timeSinceLastShot |-> 0,
   maxBullets |-> maxBullets, activeBullets |-> 0,
   bulletSpeed |-> bulletSpeed, damage |-> damage, canFire |-> TRUE]

createBullet(damage, owner, timeToLive) ==
  [type |-> "bullet", damage |-> damage, owner |-> owner,
   timeToLive |-> timeToLive, hasHit |-> FALSE]

createLifetime(seconds) ==
  [type |-> "lifetime", remaining |-> seconds, triggerEvent |-> FALSE]

createScore(value) == [type |-> "score", value |-> value, awarded |-> FALSE]

RECURSIVE WithComponents(_, _)
WithComponents(e, comps) ==
  IF comps = <<>> THEN e
  ELSE WithComponents(Entity_addComponent(e, Head(comps)), Tail(comps))

\* ------------------------------------------------------------------------
\* CollisionSystem (collision-system.ts): geometry and filters
\* ------------------------------------------------------------------------

Min(a, b) == IF a < b THEN a ELSE b

Max(a, b) == IF a > b THEN a ELSE b

getEntityBounds(e) ==
  LET position  == e.components["position"]
      collision == e.components["collision"]
  IN  [x      |-> position.x + collision.offsetX - Half(collision.width),
       y      |-> position.y + collision.offsetY - Half(collision.height),
       width  |-> collision.width,
       height |-> collision.height]

\* the overlap test with <= and >= for < and >
rectanglesIntersect_inclusive(a, b) ==
  /\ a.x <= b.x + b.width
  /\ a.x + a.width >= b.x
  /\ a.y <= b.y + b.height
  /\ a.y + a.height >= b.y

rectanglesIntersect(a, b) ==
  /\ a.x < b.x + b.width
  /\ a.x + a.width > b.x
  /\ a.y < b.y + b.height
  /\ a.y + a.height > b.y

shouldCollide_always(entityA, entityB) == TRUE

shouldCollide(entityA, entityB) ==
  LET collisionA == entityA.components["collision"]
      collisionB == entityB.components["collision"]
      aCanHitB   == collisionA.layers \cap collisionB.mask # {}
      bCanHitA   == collisionB.layers \cap collisionA.mask # {}
  IN  aCanHitB \/ bCanHitA

\* The id of the bullet entity of the pair, 0 when neither is one.
getBulletEntity(entityA, entityB) ==
  IF hasComponent(entityA, "bullet") THEN entityA.id
  ELSE IF hasComponent(entityB, "bullet") THEN entityB.id
  ELSE 0

HasLayer(e, layer) ==
  hasComponent(e, "collision") /\ layer \in e.components["collision"].layers

getPlayerEntity(entityA, entityB) ==
  IF HasLayer(entityA, "player") THEN entityA.id
  ELSE IF HasLayer(entityB, "player") THEN entityB.id
  ELSE 0

getCollisionHandlerKey(entityA, entityB) ==
  LET bullet == getBulletEntity(entityA, entityB)
      bulletE == IF bullet = entityA.id THEN entityA ELSE entityB
      otherE  == IF bullet = entityA.id THEN entityB ELSE entityA
      player  == getPlayerEntity(entityA, entityB)
      otherP  == IF player = entityA.id THEN entityB ELSE entityA
  IN  IF bullet # 0 /\ bulletE.components["bullet"].owner = otherE.id
        THEN ""
      ELSE IF /\ bullet # 0
              /\ HasLayer(bulletE, "player_bullet")
              /\ HasLayer(otherE, "enemy")
        THEN "bullet_enemy"
      ELSE IF /\ bullet # 0
              /\ HasLayer(bulletE, "enemy_bullet")
              /\ HasLayer(otherE, "player")
        THEN "bullet_player"
      ELSE IF player # 0 /\ HasLayer(otherP, "enemy")
        THEN "player_enemy"
      ELSE "default"

CollisionEventOf_neverTrigger(entityA, entityB) ==
  LET boundsA  == getEntityBounds(entityA)
      boundsB  == getEntityBounds(entityB)
      centerAx == boundsA.x + Half(boundsA.width)
      centerAy == boundsA.y + Half(boundsA.height)
      centerBx == boundsB.x + Half(boundsB.width)
      centerBy == boundsB.y + Half(boundsB.height)
      overlapX == Min(boundsA.x + boundsA.width, boundsB.x + boundsB.width)
                    - Max(boundsA.x, boundsB.x)
      overlapY == Min(boundsA.y + boundsA.height, boundsB.y + boundsB.height)
                    - Max(boundsA.y, boundsB.y)
      horizontal == overlapX < overlapY
  IN  [entityA     |-> entityA.id,
       entityB     |-> entityB.id,
       normalX     |-> IF horizontal
                         THEN (IF centerAx < centerBx THEN -1 ELSE 1) ELSE 0,
       normalY     |-> IF horizontal
                         THEN 0 ELSE (IF centerAy < centerBy THEN -1 ELSE 1),
       penetration |-> IF horizontal THEN overlapX ELSE overlapY,
       isTrigger   |-> FALSE]

CollisionEventOf_tieHorizontal(entityA, entityB) ==
  LET boundsA  == getEntityBounds(entityA)
      boundsB  == getEntityBounds(entityB)
      centerAx == boundsA.x + Half(boundsA.width)
      centerAy == boundsA.y + Half(boundsA.height)
      centerBx == boundsB.x + Half(boundsB.width)
      centerBy == boundsB.y + Half(boundsB.height)
      overlapX == Min(boundsA.x + boundsA.width, boundsB.x + boundsB.width)
                    - Max(boundsA.x, boundsB.x)
      overlapY == Min(boundsA.y + boundsA.height, boundsB.y + boundsB.height)
                    - Max(boundsA.y, boundsB.y)
      horizontal == overlapX <= overlapY
  IN  [entityA     |-> entityA.id,
       entityB     |-> entityB.id,
       normalX     |-> IF horizontal
                         THEN (IF centerAx < centerBx THEN -1 ELSE 1) ELSE 0,
       normalY     |-> IF horizontal
                         THEN 0 ELSE (IF centerAy < centerBy THEN -1 ELSE 1),
       penetration |-> IF horizontal THEN overlapX ELSE overlapY,
       isTrigger   |-> \/ entityA.components["collision"].isTrigger
                       \/ entityB.components["collision"].isTrigger]

\* The collision event of an overlapping pair (checkCollision past the test).
CollisionEventOf(entityA, entityB) ==
  LET boundsA  == getEntityBounds(entityA)
      boundsB  == getEntityBounds(entityB)
      centerAx == boundsA.x + Half(boundsA.width)
      centerAy == boundsA.y + Half(boundsA.height)
      centerBx == boundsB.x + Half(boundsB.width)
      centerBy == boundsB.y + Half(boundsB.height)
      overlapX == Min(boundsA.x + boundsA.width, boundsB.x + boundsB.width)
                    - Max(boundsA.x, boundsB.x)
      overlapY == Min(boundsA.y + boundsA.height, boundsB.y + boundsB.height)
                    - Max(boundsA.y, boundsB.y)
      horizontal == overlapX < overlapY
  IN  [entityA     |-> entityA.id,
       entityB     |-> entityB.id,
       normalX     |-> IF horizontal
                         THEN (IF centerAx < centerBx THEN -1 ELSE 1) ELSE 0,
       normalY     |-> IF horizontal
                         THEN 0 ELSE (IF centerAy < centerBy THEN -1 ELSE 1),
       penetration |-> IF horizontal THEN overlapX ELSE overlapY,
       isTrigger   |-> \/ entityA.components["collision"].isTrigger
                       \/ entityB.components["collision"].isTrigger]

\* ------------------------------------------------------------------------
\* CollisionSystem: the spatial grid and the pairs a pass looks at
\* ------------------------------------------------------------------------

\* The entity of the given id in a Map held as a sequence.
EntityIn(m, id) == m[CHOOSE i \in 1..Len(m) : m[i].id = id]

\* the entity is put in the cell of its top-left corner only
CellsOf_cornerOnly(e, size) ==
  LET bounds == getEntityBounds(e)
  IN  << <<bounds.x \div size, bounds.y \div size>> >>

\* The cell keys an entity occupies, column by column (cellX outer loop).
CellsOf(e, size) ==
  LET bounds   == getEntityBounds(e)
      minCellX == bounds.x \div size
      minCellY == bounds.y \div size
      maxCellX == (bounds.x + bounds.width) \div size
      maxCellY == (bounds.y + bounds.height) \div size
      nY       == maxCellY - minCellY + 1
      n        == (maxCellX - minCellX + 1) * nY
  IN  [k \in 1..n |-> <<minCellX + ((k - 1) \div nY), minCellY + ((k - 1) % nY)>>]

\* spatialGrid.get(cellKey).entities.push(entity), creating the cell first
AddToCell(grid, key, id) ==
  IF \E i \in 1..Len(grid) : grid[i].key = key
    THEN LET i == CHOOSE k \in 1..Len(grid) : grid[k].key = key
         IN  [grid EXCEPT ![i].entities = Append(@, id)]
    ELSE Append(grid, [key |-> key, entities |-> <<id>>])

\* (Len(grid) only has the grid built so far evaluated at each step.)
RECURSIVE AddToCells(_, _, _)
AddToCells(grid, keys, id) ==
  IF keys = <<>> \/ Len(grid) < 0 THEN grid
  ELSE AddToCells(AddToCell(grid, Head(keys), id), Tail(keys), id)

RECURSIVE populateSpatialGrid_insertsDisabled(_, _, _)
populateSpatialGrid_insertsDisabled(grid, ents, size) ==
  IF ents = <<>> THEN grid
  ELSE populateSpatialGrid_insertsDisabled(
         AddToCells(grid, CellsOf(Head(ents), size), Head(ents).id),
         Tail(ents), size)

RECURSIVE populateSpatialGrid(_, _, _)
populateSpatialGrid(grid, ents, size) ==
  IF ents = <<>> THEN grid
  ELSE LET e == Head(ents)
       IN  IF ~e.components["collision"].enabled
             THEN populateSpatialGrid(grid, Tail(ents), size)
             ELSE populateSpatialGrid(
                    AddToCells(grid, CellsOf(e, size), e.id), Tail(ents), size)

\* The pairs (i, j), i < j, of one cell in the order the two loops visit them.
RECURSIVE CellPairs(_)
CellPairs(ids) ==
  IF Len(ids) < 2 THEN <<>>
  ELSE [j \in 1..(Len(ids) - 1) |-> <<ids[1], ids[j + 1]>>]
         \o CellPairs(Tail(ids))

RECURSIVE GridPairs(_)
GridPairs(grid) ==
  IF grid = <<>> THEN <<>>
  ELSE CellPairs(Head(grid).entities) \o GridPairs(Tail(grid))

\* ------------------------------------------------------------------------
\* CollisionSystem: handlers and resolution.  A pass works on a record w:
\* ents (the entity objects), checkedPairs, the two counters, the log of the
\* pairs tested and of the collision events, threw (a TypeError left the
\* pass) and exact (no halving or scaling so far lost a fraction).
\* ------------------------------------------------------------------------

SetComponent(m, id, c) ==
  MapUpdate(m, id, Entity_addComponent(EntityIn(m, id), c))

\* The handlers setupDefaultHandlers registers, by key.
DefaultHandlers ==
  [key \in {"bullet_enemy", "player_enemy", "boundary"} |->
     CASE key = "bullet_enemy" -> "defaultBulletEnemy"
       [] key = "player_enemy" -> "defaultPlayerEnemy"
       [] key = "boundary"     -> "defaultBoundary"]

defaultBulletEnemy(m, ev) ==
  LET A        == EntityIn(m, ev.entityA)
      B        == EntityIn(m, ev.entityB)
      bullet   == getBulletEntity(A, B)
      target   == IF bullet = ev.entityA THEN ev.entityB ELSE ev.entityA
      bulletE  == EntityIn(m, bullet)
      targetE  == EntityIn(m, target)
      damaged  ==
        IF hasComponent(targetE, "health")
             /\ ~targetE.components["health"].invulnerable
          THEN LET health == [targetE.components["health"] EXCEPT
                                !.current = @ - bulletE.components["bullet"].damage]
                   m1 == SetComponent(m, target, health)
               IN  IF /\ health.current <= 0
                      /\ hasComponent(targetE, "score")
                      /\ ~targetE.components["score"].awarded
                     THEN SetComponent(m1, target,
                            [targetE.components["score"] EXCEPT !.awarded = TRUE])
                     ELSE m1
          ELSE m
  IN  IF bullet = 0 THEN m
      ELSE MapUpdate(damaged, bullet, Entity_destroy(EntityIn(damaged, bullet)))

defaultPlayerEnemy(m, ev) ==
  LET player  == getPlayerEntity(EntityIn(m, ev.entityA), EntityIn(m, ev.entityB))
      playerE == EntityIn(m, player)
  IN  IF player # 0 /\ hasComponent(playerE, "health")
           /\ ~playerE.components["health"].invulnerable
        THEN SetComponent(m, player,
               [playerE.components["health"] EXCEPT
                  !.current = @ - 10,
                  !.invulnerable = TRUE,
                  !.invulnerabilityTime = 1])
        ELSE m

defaultBulletEnemyCredit_ungated(m, ev) ==
  LET A        == EntityIn(m, ev.entityA)
      B        == EntityIn(m, ev.entityB)
      bullet   == getBulletEntity(A, B)
      targetE  == IF bullet = ev.entityA THEN B ELSE A
      bulletE  == IF bullet = ev.entityA THEN A ELSE B
  IN  IF /\ bullet # 0
         /\ hasComponent(targetE, "health")
         /\ targetE.components["health"].current
               - bulletE.components["bullet"].damage <= 0
         /\ hasComponent(targetE, "score")
        THEN <<[obj |-> targetE.obj, points |-> targetE.components["score"].value]>>
        ELSE <<>>

\* The credit the default bullet_enemy handler gives (it logs the score
\* value and sets awarded), as a list of at most one [obj, points].
defaultBulletEnemyCredit(m, ev) ==
  LET A        == EntityIn(m, ev.entityA)
      B        == EntityIn(m, ev.entityB)
      bullet   == getBulletEntity(A, B)
      targetE  == IF bullet = ev.entityA THEN B ELSE A
      bulletE  == IF bullet = ev.entityA THEN A ELSE B
  IN  IF /\ bullet # 0
         /\ hasComponent(targetE, "health")
         /\ ~targetE.components["health"].invulnerable
         /\ targetE.components["health"].current
               - bulletE.components["bullet"].damage <= 0
         /\ hasComponent(targetE, "score")
         /\ ~targetE.components["score"].awarded
        THEN <<[obj |-> targetE.obj, points |-> targetE.components["score"].value]>>
        ELSE <<>>

\* ------------------------------------------------------------------------
\* SpaceInvadersGame (game state the collision handlers of the game work
\* on).  Its operations take and give a record with the fields ents,
\* nextEntityId, heapNext, game and credits, as the pass record has.
\* ------------------------------------------------------------------------

\* config.ts; the formation is FormationRows x FormationCols (5 x 11 in
\* the source), fireRate is in hundredths of a second
GAME_CONFIG ==
  [screen  |-> [width |-> 800, height |-> 600],
   player  |-> [speed |-> 250, width |-> 80, height |-> 60,
                startX |-> 400, startY |-> 500, lives |-> 3],
   invader |-> [rows |-> FormationRows, cols |-> FormationCols,
                width |-> 60, height |-> 40,
                spacingX |-> 60, spacingY |-> 50,
                startX |-> 75, startY |-> 100, speed |-> 30,
                scoreValues |-> <<10, 20, 30, 40, 50>>],
   bullet  |-> [speed |-> 300, maxActive |-> 6, fireRate |-> 5, damage |-> 10]]

\* GAME_CONFIG.invader.scoreValues[row] || 10, rows counted from 0
ScoreValue(row) ==
  IF row + 1 \in DOMAIN GAME_CONFIG.invader.scoreValues
    THEN GAME_CONFIG.invader.scoreValues[row + 1]
    ELSE 10

GameFields ==
  [invaderFormation |-> invaderFormation, score |-> score,
   lives |-> lives, level |-> level, gameStarted |-> gameStarted]

SetGame(g) ==
  /\ invaderFormation' = g.invaderFormation
  /\ score' = g.score
  /\ lives' = g.lives
  /\ level' = g.level
  /\ gameStarted' = g.gameStarted

\* entityManager.createEntityWithComponents on the record
CreateIn(w, components) ==
  [w EXCEPT
     !.ents = Append(@, WithComponents(NewEntity(w.nextEntityId, w.heapNext),
                                       components)),
     !.nextEntityId = @ + 1,
     !.heapNext = @ + 1]

FormationInvader(row, col) ==
  <<createPosition(
      World(GAME_CONFIG.invader.startX + col * GAME_CONFIG.invader.spacingX),
      World(GAME_CONFIG.invader.startY + row * GAME_CONFIG.invader.spacingY)),
    createVelocity(0, 0, GAME_CONFIG.invader.speed),
    createHealth(1),
    createCollision(World(GAME_CONFIG.invader.width),
                    World(GAME_CONFIG.invader.height),
                    {"enemy"}, {"player", "player_bullet"}),
    createScore(ScoreValue(row))>>

\* The two loops of createInvaderFormation from the k-th invader on.
RECURSIVE AddInvaders(_, _)
AddInvaders(w, k) ==
  IF k >= GAME_CONFIG.invader.rows * GAME_CONFIG.invader.cols THEN w
  ELSE LET row     == k \div GAME_CONFIG.invader.cols
           col     == k % GAME_CONFIG.invader.cols
           created == CreateIn(w, FormationInvader(row, col))
       IN  AddInvaders(
             [created EXCEPT !.game.invaderFormation =
                Append(@, [entityId |-> w.nextEntityId, row |-> row, col |-> col])],
             k + 1)

createInvaderFormation(w) ==
  AddInvaders([w EXCEPT !.game.invaderFormation = <<>>], 0)

damagePlayer(w) == [w EXCEPT !.game.lives = @ - 1]

addScore(w, points) == [w EXCEPT !.game.score = @ + points]

nextLevel(w) ==
  LET cleared ==
        [i \in 1..Len(w.ents) |->
           IF w.ents[i].active /\ hasComponent(w.ents[i], "bullet")
             THEN Entity_destroy(w.ents[i])
             ELSE w.ents[i]]
  IN  createInvaderFormation([w EXCEPT !.game.level = @ + 1, !.ents = cleared])

\* The handlers setupCollisionHandlers registers, by key.
GameHandlers ==
  [key \in {"bullet_enemy", "bullet_player", "player_enemy", "boundary"} |->
     CASE key = "bullet_enemy"  -> "gameBulletEnemy"
       [] key = "bullet_player" -> "gameBulletPlayer"
       [] key = "player_enemy"  -> "gamePlayerEnemy"
       [] key = "boundary"      -> "gameBoundary"]

DestroyIn(m, id) == MapUpdate(m, id, Entity_destroy(EntityIn(m, id)))

gameBulletEnemy_keepsInvader(w, ev) ==
  LET bullet == IF hasComponent(EntityIn(w.ents, ev.entityA), "bullet")
                  THEN ev.entityA ELSE ev.entityB
  IN  [w EXCEPT !.ents = DestroyIn(@, bullet)]

gameBulletEnemy(w, ev) ==
  LET bullet   == IF hasComponent(EntityIn(w.ents, ev.entityA), "bullet")
                    THEN ev.entityA ELSE ev.entityB
      invader  == IF bullet = ev.entityA THEN ev.entityB ELSE ev.entityA
      found    == { i \in 1..Len(w.game.invaderFormation) :
                      w.game.invaderFormation[i].entityId = invader }
      first    == CHOOSE i \in found : \A j \in found : i <= j
      points   == ScoreValue(w.game.invaderFormation[first].row)
      IsOther(inv) == inv.entityId # invader
      scored   ==
        IF found = {} THEN w
        ELSE [addScore(w, points) EXCEPT
                !.game.invaderFormation = SelectSeq(@, IsOther),
                !.credits = Append(@, [obj |-> EntityIn(w.ents, invader).obj,
                                       points |-> points])]
      destroyed == [scored EXCEPT
                      !.ents = DestroyIn(DestroyIn(@, bullet), invader)]
  IN  IF destroyed.game.invaderFormation = <<>>
        THEN nextLevel(destroyed)
        ELSE destroyed

gameBulletPlayer(w, ev) ==
  LET bullet == IF hasComponent(EntityIn(w.ents, ev.entityA), "bullet")
                  THEN ev.entityA ELSE ev.entityB
  IN  damagePlayer([w EXCEPT !.ents = DestroyIn(@, bullet)])

gamePlayerEnemy(w, ev) == damagePlayer(w)

gameBoundary(w, ev) ==
  IF hasComponent(EntityIn(w.ents, ev.entityA), "bullet")
    THEN [w EXCEPT !.ents = DestroyIn(@, ev.entityA)]
  ELSE IF hasComponent(EntityIn(w.ents, ev.entityB), "bullet")
    THEN [w EXCEPT !.ents = DestroyIn(@, ev.entityB)]
  ELSE w

CallHandler(handler, w, ev) ==
  CASE handler = "defaultBulletEnemy" ->
         [w EXCEPT !.ents = defaultBulletEnemy(w.ents, ev),
                   !.credits = @ \o defaultBulletEnemyCredit(w.ents, ev)]
    [] handler = "defaultPlayerEnemy" ->
         [w EXCEPT !.ents = defaultPlayerEnemy(w.ents, ev)]
    [] handler = "gameBulletEnemy" -> gameBulletEnemy(w, ev)
    [] handler = "gameBulletPlayer" -> gameBulletPlayer(w, ev)
    [] handler = "gamePlayerEnemy" -> gamePlayerEnemy(w, ev)
    [] handler = "gameBoundary" -> gameBoundary(w, ev)
    [] OTHER -> w

Moved(e, dx, dy) ==
  Entity_addComponent(e,
    [e.components["position"] EXCEPT !.x = @ + dx, !.y = @ + dy])

Pushed(e, dvx, dvy) ==
  Entity_addComponent(e,
    [e.components["velocity"] EXCEPT !.vx = @ + dvx, !.vy = @ + dvy])

\* resolveCollision without the test of line 422: the impulse is applied
\* whatever the sign of the relative velocity along the normal.
resolveCollision_alwaysBounces(w, ev) ==
  LET A          == EntityIn(w.ents, ev.entityA)
      B          == EntityIn(w.ents, ev.entityB)
      separation == Half(ev.penetration)
      dx         == ev.normalX * separation
      dy         == ev.normalY * separation
      halved     == w.exact /\ ev.penetration % 2 = 0
      movedA     == MapUpdate(w.ents, A.id, Moved(A, -dx, -dy))
      movedAB    == MapUpdate(movedA, B.id, Moved(B, dx, dy))
      along      ==
        (A.components["velocity"].vx - B.components["velocity"].vx) * ev.normalX
          + (A.components["velocity"].vy - B.components["velocity"].vy) * ev.normalY
      scaled     == -(9 * along)
      impulse    == scaled \div 10
      bounced    ==
        MapUpdate(
          MapUpdate(movedAB, A.id,
                    Pushed(EntityIn(movedAB, A.id),
                           impulse * ev.normalX, impulse * ev.normalY)),
          B.id, Pushed(EntityIn(movedAB, B.id),
                       -(impulse * ev.normalX), -(impulse * ev.normalY)))
  IN  IF ~hasComponent(A, "position")
        THEN [w EXCEPT !.threw = TRUE]
      ELSE IF ~hasComponent(B, "position")
        THEN [w EXCEPT !.ents = movedA, !.exact = halved, !.threw = TRUE]
      ELSE IF ~(hasComponent(A, "velocity") /\ hasComponent(B, "velocity"))
        THEN [w EXCEPT !.ents = movedAB, !.exact = halved]
      ELSE [w EXCEPT !.ents = bounced,
                     !.exact = halved /\ scaled % 10 = 0]

\* resolveCollision; its result also says how the call ended.
resolveCollision(w, ev) ==
  LET A          == EntityIn(w.ents, ev.entityA)
      B          == EntityIn(w.ents, ev.entityB)
      separation == Half(ev.penetration)
      dx         == ev.normalX * separation
      dy         == ev.normalY * separation
      halved     == w.exact /\ ev.penetration % 2 = 0
      movedA     == MapUpdate(w.ents, A.id, Moved(A, -dx, -dy))
      movedAB    == MapUpdate(movedA, B.id, Moved(B, dx, dy))
      A2         == EntityIn(movedAB, A.id)
      B2         == EntityIn(movedAB, B.id)
      along      ==
        (A.components["velocity"].vx - B.components["velocity"].vx) * ev.normalX
          + (A.components["velocity"].vy - B.components["velocity"].vy) * ev.normalY
      scaled     == -(9 * along)
      impulse    == scaled \div 10
      bounced    ==
        MapUpdate(
          MapUpdate(movedAB, A.id,
                    Pushed(A2, impulse * ev.normalX, impulse * ev.normalY)),
          B.id, Pushed(B2, -(impulse * ev.normalX), -(impulse * ev.normalY)))
  IN  IF ~hasComponent(A, "position")
        THEN [w EXCEPT !.threw = TRUE]
      ELSE IF ~hasComponent(B, "position")
        THEN [w EXCEPT !.ents = movedA, !.exact = halved, !.threw = TRUE]
      ELSE IF ~(hasComponent(A, "velocity") /\ hasComponent(B, "velocity"))
        THEN [w EXCEPT !.ents = movedAB, !.exact = halved]
      ELSE IF along > 0
        THEN [w EXCEPT !.ents = movedAB, !.exact = halved]
      ELSE [w EXCEPT !.ents = bounced,
                     !.exact = halved /\ scaled % 10 = 0]

\* ------------------------------------------------------------------------
\* CollisionSystem: one pass (update)
\* ------------------------------------------------------------------------

\* handleCollision that falls back on the handler setupDefaultHandlers
\* registered when the key has none now.
handleCollision_fallsBack(w, ev) ==
  LET handlerKey == getCollisionHandlerKey(EntityIn(w.ents, ev.entityA),
                                           EntityIn(w.ents, ev.entityB))
      handled    == handlerKey \in DOMAIN collisionHandlers \cup DOMAIN DefaultHandlers
      handler    == IF handlerKey \in DOMAIN collisionHandlers
                      THEN collisionHandlers[handlerKey]
                    ELSE IF handled THEN DefaultHandlers[handlerKey] ELSE "none"
      afterCall  == IF handled THEN CallHandler(handler, w, ev) ELSE w
      resolved   == IF ev.isTrigger THEN afterCall
                    ELSE resolveCollision(afterCall, ev)
      entry      == [entityA |-> ev.entityA, entityB |-> ev.entityB,
                     normalX |-> ev.normalX, normalY |-> ev.normalY,
                     penetration |-> ev.penetration,
                     isTrigger |-> ev.isTrigger,
                     key |-> handlerKey, handler |-> handler,
                     outcome |-> IF ev.isTrigger THEN "trigger"
                                 ELSE IF resolved.threw THEN "threw"
                                 ELSE "resolved"]
  IN  [resolved EXCEPT !.events = Append(@, entry)]

handleCollision(w, ev) ==
  LET handlerKey == getCollisionHandlerKey(EntityIn(w.ents, ev.entityA),
                                           EntityIn(w.ents, ev.entityB))
      handled    == handlerKey \in DOMAIN collisionHandlers
      handler    == IF handled THEN collisionHandlers[handlerKey] ELSE "none"
      afterCall  == IF handled THEN CallHandler(handler, w, ev) ELSE w
      resolved   == IF ev.isTrigger THEN afterCall
                    ELSE resolveCollision(afterCall, ev)
      entry      == [entityA |-> ev.entityA, entityB |-> ev.entityB,
                     normalX |-> ev.normalX, normalY |-> ev.normalY,
                     penetration |-> ev.penetration,
                     isTrigger |-> ev.isTrigger,
                     key |-> handlerKey, handler |-> handler,
                     outcome |-> IF ev.isTrigger THEN "trigger"
                                 ELSE IF resolved.threw THEN "threw"
                                 ELSE "resolved"]
  IN  [resolved EXCEPT !.events = Append(@, entry)]

alreadyChecked_never(checkedPairs, a, b) == FALSE

\* checkedPairs.has(pairId): the pair id is the same for (a, b) and (b, a)
alreadyChecked(checkedPairs, a, b) == {a, b} \in checkedPairs

\* The body of the inner loop of detectCollisions for one pair of a cell.
TestPair(w, a, b) ==
  LET A      == EntityIn(w.ents, a)
      B      == EntityIn(w.ents, b)
      tested == [w EXCEPT !.checkedPairs = @ \cup {{a, b}},
                          !.collisionChecks = @ + 1,
                          !.checks = Append(@, <<a, b>>)]
  IN  IF alreadyChecked(w.checkedPairs, a, b) THEN w
      ELSE IF ~hasComponent(A, "collision") \/ ~hasComponent(B, "collision")
        THEN [tested EXCEPT !.threw = TRUE]
      ELSE IF ~shouldCollide(A, B) THEN tested
      ELSE IF ~hasComponent(A, "position") \/ ~hasComponent(B, "position")
        THEN [tested EXCEPT !.threw = TRUE]
      ELSE IF ~rectanglesIntersect(getEntityBounds(A), getEntityBounds(B))
        THEN tested
      ELSE handleCollision([tested EXCEPT !.collisionsDetected = @ + 1],
                           CollisionEventOf(A, B))

\* detectCollisions over the pairs of all cells; a throw ends the pass.
RECURSIVE detectCollisions(_, _)
detectCollisions(w, pairs) ==
  IF pairs = <<>> \/ w.threw THEN w
  ELSE detectCollisions(TestPair(w, Head(pairs)[1], Head(pairs)[2]), Tail(pairs))

updateWeaponBulletCounts(m) ==
  LET Owned(id) ==
        { i \in 1..Len(m) : /\ m[i].active
                            /\ hasComponent(m[i], "bullet")
                            /\ m[i].components["bullet"].owner = id }
  IN  [i \in 1..Len(m) |->
        IF m[i].active /\ hasComponent(m[i], "weapon")
          THEN Entity_addComponent(m[i],
                 [m[i].components["weapon"] EXCEPT
                    !.activeBullets = Cardinality(Owned(m[i].id))])
          ELSE m[i]]

NoPass ==
  [n |-> 0, before |-> <<>>, checks |-> <<>>, events |-> <<>>,
   threw |-> FALSE, exact |-> TRUE]

CollisionSystem_pass ==
  LET collisionEntities == getEntitiesWithComponents(<<"position", "collision">>)
      grid  == populateSpatialGrid(<<>>, collisionEntities, World(cellSize))
      start == [ents |-> entities, checkedPairs |-> {},
                collisionChecks |-> 0, collisionsDetected |-> 0,
                checks |-> <<>>, events |-> <<>>,
                threw |-> FALSE, exact |-> pass.exact,
                game |-> GameFields, credits |-> credits,
                nextEntityId |-> nextEntityId, heapNext |-> heapNext]
      w     == detectCollisions(start, GridPairs(grid))
  IN  /\ spatialGrid' = grid
      /\ collisionChecks' = w.collisionChecks
      /\ collisionsDetected' = w.collisionsDetected
      /\ entities' = IF w.threw THEN w.ents ELSE updateWeaponBulletCounts(w.ents)
      /\ pass' = [n |-> pass.n + 1, before |-> entities,
                  checks |-> w.checks, events |-> w.events,
                  threw |-> w.threw, exact |-> w.exact]
      /\ SetGame(w.game)
      /\ credits' = w.credits
      /\ nextEntityId' = w.nextEntityId
      /\ heapNext' = w.heapNext
      /\ lastOp' = Op("collisionUpdate", 0)
      /\ UNCHANGED <<deadEntities, cellSize, collisionHandlers>>

CollisionSystem_update ==
  /\ pass.n < MaxPasses
  /\ CollisionSystem_pass

\* this.collisionHandlers.set(key, handler)
CollisionSystem_registerCollisionHandler(key, handler) ==
  /\ collisionHandlers' =
       [k \in DOMAIN collisionHandlers \cup {key} |->
          IF k = key THEN handler ELSE collisionHandlers[k]]
  /\ lastOp' = Op("registerCollisionHandler", key)
  /\ UNCHANGED <<emVars, gameVars, cellSize, spatialGrid,
                 collisionChecks, collisionsDetected, pass>>

\* this.collisionHandlers.delete(key): a Map's delete of a missing key
\* returns false and does nothing.
CollisionSystem_unregisterCollisionHandler(key) ==
  /\ collisionHandlers' =
       [k \in DOMAIN collisionHandlers \ {key} |-> collisionHandlers[k]]
  /\ lastOp' = Op("unregisterCollisionHandler", key)
  /\ UNCHANGED <<emVars, gameVars, cellSize, spatialGrid,
                 collisionChecks, collisionsDetected, pass>>

\* The entities startGame creates: the player, the formation, four walls.
SceneSize == 1 + GAME_CONFIG.invader.rows * GAME_CONFIG.invader.cols + 4

\* A scene built by hand holds at most MaxColliders entities; a started
\* game gets at most MaxBullets entities over those of startGame.
EntityManager_createEntityWithComponents(components) ==
  /\ \/ ~gameStarted /\ Len(entities) < MaxColliders
     \/ gameStarted /\ Len(entities) < SceneSize + MaxBullets
  /\ entities' = Append(entities,
                   WithComponents(NewEntity(nextEntityId, heapNext), components))
  /\ nextEntityId' = nextEntityId + 1
  /\ heapNext' = heapNext + 1
  /\ lastOp' = Op("createEntityWithComponents", 0)
  /\ UNCHANGED <<deadEntities, colVars, gameVars>>

InitCol ==
  /\ cellSize = 100
  /\ collisionHandlers = DefaultHandlers
  /\ spatialGrid = <<>>
  /\ collisionChecks = 0
  /\ collisionsDetected = 0
  /\ pass = NoPass

InitGame ==
  /\ invaderFormation = <<>>
  /\ score = 0
  /\ lives = GAME_CONFIG.player.lives
  /\ level = 1
  /\ gameStarted = FALSE
  /\ credits = <<>>

\* GameEngine's field initialisers: the state is Loading until the
\* constructor has run.
InitEng ==
  /\ gameState = "loading"
  /\ deltaTime = 0
  /\ frameCount = 0

\* The collision handlers once the constructor of the game has registered
\* its own over the defaults.
HandlersOfGame ==
  [key \in DOMAIN DefaultHandlers \cup DOMAIN GameHandlers |->
     IF key \in DOMAIN GameHandlers THEN GameHandlers[key]
                                    ELSE DefaultHandlers[key]]

GameConstructed == collisionHandlers = HandlersOfGame

SpaceInvadersGame_setupCollisionHandlers ==
  /\ ~GameConstructed
  /\ entities = <<>>
  /\ collisionHandlers' = HandlersOfGame
  /\ lastOp' = Op("setupCollisionHandlers", 0)
  /\ UNCHANGED <<emVars, gameVars, cellSize, spatialGrid, collisionChecks,
                 collisionsDetected, pass>>

\* createWeapon takes four arguments: the bullet configuration createPlayer
\* passes as a fifth is dropped.
createPlayer(w) ==
  CreateIn(w,
    <<createPosition(World(GAME_CONFIG.player.startX),
                     World(GAME_CONFIG.player.startY)),
      createVelocity(0, 0, GAME_CONFIG.player.speed),
      createWeapon(GAME_CONFIG.bullet.fireRate, GAME_CONFIG.bullet.maxActive,
                   GAME_CONFIG.bullet.speed, GAME_CONFIG.bullet.damage),
      createHealth(1),
      createCollision(World(GAME_CONFIG.player.width),
                      World(GAME_CONFIG.player.height),
                      {"player"}, {"enemy", "enemy_bullet"})>>)

Boundary(x, y, width, height, mask) ==
  <<createPosition(World(x), World(y)),
    createCollision(World(width), World(height), {"boundary"}, mask)>>

\* top, bottom, left, right
createBoundaries(w) ==
  LET width  == GAME_CONFIG.screen.width
      height == GAME_CONFIG.screen.height
      top    == CreateIn(w, Boundary(width \div 2, -10, width, 20, {"bullet"}))
      bottom == CreateIn(top,
                  Boundary(width \div 2, height + 10, width, 20, {"bullet"}))
      left   == CreateIn(bottom,
                  Boundary(-10, height \div 2, 20, height, {"enemy"}))
  IN  CreateIn(left, Boundary(width + 10, height \div 2, 20, height, {"enemy"}))

SpaceInvadersGame_startGame ==
  LET cleared == [ents |-> <<>>, nextEntityId |-> 1, heapNext |-> heapNext,
                  game |-> [GameFields EXCEPT
                              !.score = 0,
                              !.lives = GAME_CONFIG.player.lives,
                              !.level = 1,
                              !.gameStarted = TRUE],
                  credits |-> credits]
      w == createBoundaries(createInvaderFormation(createPlayer(cleared)))
  IN  /\ GameConstructed
      /\ ~gameStarted
      /\ entities = <<>>
      /\ entities' = w.ents
      /\ deadEntities' = {}
      /\ nextEntityId' = w.nextEntityId
      /\ heapNext' = w.heapNext
      /\ SetGame(w.game)
      /\ lastOp' = Op("startGame", 0)
      /\ UNCHANGED <<credits, colVars>>

\* ------------------------------------------------------------------------
\* Renderer (renderer.ts): the sprite batch.  The operations work on the
\* record of the Renderer's fields; a texture is [id], a texture region is
\* [texture, region], and a sprite config holds one of the two.
\* ------------------------------------------------------------------------

NoTexture == [id |-> "null"]

Textures == { [id |-> "A"], [id |-> "B"] }

TextureRegions == { [texture |-> t, region |-> 1] : t \in Textures }

SpriteConfigs == { [texture |-> t] : t \in Textures \cup TextureRegions }

getTextureFromConfig(config) ==
  IF "texture" \in DOMAIN config.texture
    THEN config.texture.texture
    ELSE config.texture

needsFlush_always(r, texture) == TRUE

needsFlush_onlyWhenFull(r, texture) ==
  r.vertexData >= MAX_SPRITES * VERTICES_PER_SPRITE

\* the capacity test with > for >=
needsFlush_lateByOne(r, texture) ==
  \/ (r.currentTexture # NoTexture /\ r.currentTexture # texture)
  \/ r.vertexData > MAX_SPRITES * VERTICES_PER_SPRITE

needsFlush(r, texture) ==
  \/ (r.currentTexture # NoTexture /\ r.currentTexture # texture)
  \/ r.vertexData >= MAX_SPRITES * VERTICES_PER_SPRITE

\* flush that issues and counts a draw call for an empty batch too
flush_countsEmpty(r) ==
  [r EXCEPT
     !.drawLog = Append(@, [bound      |-> r.currentTexture,
                            sprites    |-> r.batch,
                            indexCount |-> r.indexData]),
     !.renderCalls = @ + 1,
     !.spritesRendered = @ + (r.vertexData \div VERTICES_PER_SPRITE),
     !.vertexData = 0,
     !.indexData = 0,
     !.batch = <<>>]

\* drawElements is called with the texture bound just before; an error it
\* raises is caught and logged, and the counters are updated all the same.
flush(r) ==
  IF r.vertexData = 0 THEN r
  ELSE [r EXCEPT
          !.drawLog = Append(@, [bound      |-> r.currentTexture,
                                 sprites    |-> r.batch,
                                 indexCount |-> r.indexData]),
          !.renderCalls = @ + 1,
          !.spritesRendered = @ + (r.vertexData \div VERTICES_PER_SPRITE),
          !.vertexData = 0,
          !.indexData = 0,
          !.batch = <<>>]

addSpriteVertices(r, texture) ==
  [r EXCEPT !.vertexData = @ + VERTICES_PER_SPRITE,
            !.indexData = @ + INDICES_PER_SPRITE,
            !.batch = Append(@, texture)]

drawSprite(r, config) ==
  LET texture == getTextureFromConfig(config)
      flushed == IF needsFlush(r, texture) THEN flush(r) ELSE r
      bound   == IF flushed.currentTexture # texture
                   THEN [flushed EXCEPT !.currentTexture = texture]
                   ELSE flushed
  IN  addSpriteVertices(bound, texture)

begin(r) ==
  [r EXCEPT !.vertexData = 0, !.indexData = 0, !.renderCalls = 0,
            !.spritesRendered = 0, !.currentTexture = NoTexture,
            !.batch = <<>>, !.drawLog = <<>>]

RendererFields ==
  [vertexData |-> vertexData, indexData |-> indexData,
   currentTexture |-> currentTexture, renderCalls |-> renderCalls,
   spritesRendered |-> spritesRendered, batch |-> batch, drawLog |-> drawLog]

SetRenderer(r) ==
  /\ vertexData' = r.vertexData
  /\ indexData' = r.indexData
  /\ currentTexture' = r.currentTexture
  /\ renderCalls' = r.renderCalls
  /\ spritesRendered' = r.spritesRendered
  /\ batch' = r.batch
  /\ drawLog' = r.drawLog

Renderer_begin ==
  /\ SetRenderer(begin(RendererFields))
  /\ script' = <<"begin">>
  /\ lastOp' = Op("begin", 0)

Renderer_drawSprite(config) ==
  /\ Len(script) <= MaxCalls
  /\ SetRenderer(drawSprite(RendererFields, config))
  /\ script' = Append(script, getTextureFromConfig(config).id)
  /\ lastOp' = Op("drawSprite", 0)

Renderer_flush ==
  /\ Len(script) <= MaxCalls
  /\ SetRenderer(flush(RendererFields))
  /\ script' = Append(script, "flush")
  /\ lastOp' = Op("flush", 0)

Renderer_end ==
  /\ Len(script) <= MaxCalls
  /\ SetRenderer(flush(RendererFields))
  /\ script' = Append(script, "end")
  /\ lastOp' = Op("end", 0)

InitRen ==
  /\ vertexData = 0
  /\ indexData = 0
  /\ currentTexture = NoTexture
  /\ renderCalls = 0
  /\ spritesRendered = 0
  /\ batch = <<>>
  /\ drawLog = <<>>
  /\ script = <<>>

\* ------------------------------------------------------------------------
\* Specification of the entity registry
\* ------------------------------------------------------------------------

InitEM ==
  /\ entities = <<>>
  /\ nextEntityId = 1
  /\ deadEntities = {}
  /\ heapNext = 1

\* Ids a caller may pass: the ids of the Map and one id that is not in it
\* (never created, or already removed).
AllIds == 1..(MaxEntities + 1)

CallerIds ==
  LET inMap == { entities[i].id : i \in 1..Len(entities) }
  IN  inMap \cup { CHOOSE id \in AllIds : id \notin inMap }

Init ==
  /\ InitEM
  /\ InitSM
  /\ InitCol
  /\ InitRen
  /\ InitGame
  /\ InitEng
  /\ issued = <<>>
  /\ lastOp = Op("new", 0)

NextEM ==
  \/ EntityManager_createEntity
  \/ \E id \in CallerIds, c \in RegistryComponents : Entity_addComponentCall(id, c)
  \/ \E id \in CallerIds, k \in RegistryKinds : Entity_removeComponentCall(id, k)
  \/ \E id \in CallerIds : Entity_destroyCall(id)
  \/ \E id \in CallerIds : EntityManager_destroyEntity(id)
  \/ \E id \in CallerIds : EntityManager_removeEntity(id)
  \/ EntityManager_cleanup
  \/ EntityManager_clear

Next == NextEM /\ UNCHANGED <<smVars, colVars, renVars, gameVars, issued, engVars>>

Spec == Init /\ [][Next]_vars

\* ------------------------------------------------------------------------
\* Specification of the system scheduler: systems are registered, removed
\* and switched between frames; a frame runs the systems and the cleanup.
\* ------------------------------------------------------------------------

StepSM ==
  \/ \E sys \in SystemCatalogue :
        SystemManager_registerSystem(sys) /\ UNCHANGED emVars
  \/ \E name \in SystemNames :
        SystemManager_unregisterSystem(name) /\ UNCHANGED emVars
  \/ \E name \in SystemNames, enabled \in BOOLEAN :
        SystemManager_setSystemEnabled(name, enabled) /\ UNCHANGED emVars
  \/ SystemManager_updateBegin
  \/ \E effect \in SystemEffects, id \in CallerIds, threw \in BOOLEAN :
        SystemManager_updateSystem(effect, id, threw)
  \/ SystemManager_updateEnd

NextSM == StepSM /\ UNCHANGED <<colVars, renVars, gameVars, issued, engVars>>

SpecSM == Init /\ [][NextSM]_vars

\* ------------------------------------------------------------------------
\* Specification of the collision engine: a scene of colliders is built
\* from the kinds of entity the game creates, and passes run over it.
\* The boxes are 10 wide and sit around x = 100, the border of two cells, so
\* that colliders overlap and share more than one cell.
\* ------------------------------------------------------------------------

Box(x, y) ==
  <<createPosition(World(x), World(y)),
    createCollision(World(10), World(10), {"default"}, {"default"})>>

Body(x, y) == Box(x, y) \o <<createVelocity(0, 0, 100)>>

TriggerBox(x, y) ==
  <<createPosition(World(x), World(y)),
    [createCollision(World(10), World(10), {"default"}, {"default"})
       EXCEPT !.isTrigger = TRUE]>>

\* createBoundaries: a wall only bullets are meant to hit
Wall(x, y) ==
  <<createPosition(World(x), World(y)),
    createCollision(World(20), World(10), {"boundary"}, {"bullet"})>>

\* createPlayer
Player(x, y) ==
  <<createPosition(World(x), World(y)),
    createVelocity(0, 0, 250),
    createHealth(1),
    createWeapon(1, 6, 300, 10),
    createCollision(World(10), World(10), {"player"}, {"enemy", "enemy_bullet"})>>

\* createInvaderFormation
Invader(x, y) ==
  <<createPosition(World(x), World(y)),
    createVelocity(0, 0, 30),
    createHealth(1),
    createScore(10),
    createCollision(World(10), World(10), {"enemy"}, {"player", "player_bullet"})>>

\* WeaponSystem.fireBullet for the shooter of the given id
PlayerBullet(owner, x, y) ==
  <<createPosition(World(x), World(y)),
    createVelocity(0, -300, 300),
    createBullet(10, owner, 5),
    createLifetime(5),
    createCollision(World(4), World(8), {"player_bullet"}, {"enemy"})>>

\* a collider switched off (collision.enabled = false)
DisabledBody(x, y) ==
  <<createPosition(World(x), World(y)),
    [createCollision(World(10), World(10), {"default"}, {"default"})
       EXCEPT !.enabled = FALSE],
    createVelocity(0, 0, 100)>>

\* a zone that reports the player and is not an obstacle
TriggerInvader(x, y) ==
  <<createPosition(World(x), World(y)),
    [createCollision(World(10), World(10), {"enemy"}, {"player"})
       EXCEPT !.isTrigger = TRUE]>>

\* a solid collider that moves: velocity (vx, vy)
Mover(x, y, vx, vy) == Box(x, y) \o <<createVelocity(vx, vy, 100)>>

Shooters ==
  { entities[i].id : i \in { j \in 1..Len(entities) :
                               hasComponent(entities[j], "weapon") } }

Prefabs ==
  { Body(96, 50), Body(102, 50), Box(102, 58), TriggerBox(102, 50),
    Wall(96, 50), Player(102, 50), Invader(96, 50) }
    \cup { PlayerBullet(owner, 98, 50) : owner \in Shooters }

StepCol ==
  \/ \E components \in Prefabs :
        EntityManager_createEntityWithComponents(components)
  \/ CollisionSystem_update

NextCol == StepCol /\ UNCHANGED <<smVars, renVars, issued, engVars>>

SpecCol == Init /\ [][NextCol]_vars

\* ------------------------------------------------------------------------
\* Specification of the pairs of colliders: scenes with a trigger, a
\* collider switched off, and boxes that overlap as much on one axis as on
\* the other, short of it and beyond it.
\* ------------------------------------------------------------------------

PairPrefabs ==
  { Body(102, 50), Box(108, 56), TriggerBox(96, 50), DisabledBody(102, 50),
    Player(102, 50), TriggerInvader(102, 58) }

StepPair ==
  \/ \E components \in PairPrefabs :
        EntityManager_createEntityWithComponents(components)
  \/ CollisionSystem_update

NextPair == StepPair /\ UNCHANGED <<smVars, renVars, issued, engVars>>

SpecPair == Init /\ [][NextPair]_vars

\* ------------------------------------------------------------------------
\* Specification of the velocity response: colliders that approach each
\* other, move apart, or have no velocity at all, along either axis.
\* ------------------------------------------------------------------------

MoverPrefabs ==
  { Mover(96, 50, 10, 0), Mover(96, 50, -10, 0),
    Mover(102, 50, 10, 0), Mover(102, 50, -10, 0),
    Mover(98, 56, 0, -10), Box(102, 50) }

StepVel ==
  \/ \E components \in MoverPrefabs :
        EntityManager_createEntityWithComponents(components)
  \/ CollisionSystem_update

NextVel == StepVel /\ UNCHANGED <<smVars, renVars, issued, engVars>>

SpecVel == Init /\ [][NextVel]_vars

\* ------------------------------------------------------------------------
\* Specification of the handler table: handlers are registered and removed
\* between passes over a player, an invader and a body.
\* ------------------------------------------------------------------------

HandlerPrefabs ==
  { Player(102, 50), Invader(96, 50), TriggerInvader(102, 58), Body(108, 50) }

StepHand ==
  \/ \E components \in HandlerPrefabs :
        EntityManager_createEntityWithComponents(components)
  \/ \E key \in {"player_enemy", "boundary", "powerup"} :
        CollisionSystem_unregisterCollisionHandler(key)
  \/ CollisionSystem_registerCollisionHandler("player_enemy",
                                              "defaultPlayerEnemy")
  \/ CollisionSystem_update

NextHand == StepHand /\ UNCHANGED <<smVars, renVars, issued, engVars>>

SpecHand == Init /\ [][NextHand]_vars

\* ------------------------------------------------------------------------
\* Specification of the collision factory: colliders are created from calls
\* of createCollision with and without the optional layers and mask.
\* ------------------------------------------------------------------------

CollisionArgs ==
  LET size == [width |-> World(10), height |-> World(10)]
      LayerLists == { {}, {"default"}, {"enemy", "solid"} }
  IN  {size}
        \cup { [width |-> size.width, height |-> size.height, layers |-> l] :
                 l \in LayerLists }
        \cup { [width |-> size.width, height |-> size.height, mask |-> m] :
                 m \in LayerLists }
        \cup { [width |-> size.width, height |-> size.height,
                layers |-> l, mask |-> m] :
                 l \in LayerLists, m \in LayerLists }

\* createEntityWithComponents(createPosition(..), createCollision(...args))
ComponentFactory_createCollisionCall(args) ==
  /\ Len(entities) < MaxColliders
  /\ entities' = Append(entities,
                   WithComponents(NewEntity(nextEntityId, heapNext),
                                  <<createPosition(World(100), World(50)),
                                    createCollisionCall(args)>>))
  /\ nextEntityId' = nextEntityId + 1
  /\ heapNext' = heapNext + 1
  /\ lastOp' = Op("createCollision", args)
  /\ UNCHANGED <<deadEntities, colVars, gameVars>>

StepFac ==
  \/ \E args \in CollisionArgs : ComponentFactory_createCollisionCall(args)
  \/ CollisionSystem_update

NextFac == StepFac /\ UNCHANGED <<smVars, renVars, issued, engVars>>

SpecFac == Init /\ [][NextFac]_vars

\* ------------------------------------------------------------------------
\* Specification of the nearest-entity query: entities at the points of the
\* repository's test ((5, 0), (3, 4), (10, 10)) and at (0, 5), with and
\* without a velocity, are created and destroyed, and the query is made
\* from two points for three lists of kinds.
\* ------------------------------------------------------------------------

NearPrefabs ==
  { <<createPosition(5, 0)>>, <<createPosition(3, 4)>>,
    <<createPosition(3, 4), createVelocity(0, 0, 100)>>,
    <<createPosition(0, 5), createVelocity(0, 0, 100)>>,
    <<createPosition(10, 10)>>, <<createVelocity(0, 0, 100)>> }

StepNear ==
  \/ \E components \in NearPrefabs :
        EntityManager_createEntityWithComponents(components)
  \/ /\ \E id \in 1..MaxColliders : Entity_destroyCall(id)
     /\ UNCHANGED <<colVars, gameVars>>
  \/ /\ \E point \in { <<0, 0>>, <<10, 10>> },
             kinds \in { <<>>, <<"velocity">>, <<"health">> } :
          EntityManager_getClosestEntityCall(point[1], point[2], kinds)
     /\ UNCHANGED <<colVars, gameVars>>

NextNear == StepNear /\ UNCHANGED <<smVars, renVars, issued, engVars>>

SpecNear == Init /\ [][NextNear]_vars

\* ------------------------------------------------------------------------
\* Specification of touching colliders: boxes 10 wide that share an edge
\* (x = 96 and 106, y = 50 and 60), share a corner, or overlap.
\* ------------------------------------------------------------------------

TouchPrefabs ==
  { Box(96, 50), Box(106, 50), Box(96, 60), Box(106, 60), Box(100, 54) }

StepTouch ==
  \/ \E components \in TouchPrefabs :
        EntityManager_createEntityWithComponents(components)
  \/ CollisionSystem_update

NextTouch == StepTouch /\ UNCHANGED <<smVars, renVars, issued, engVars>>

SpecTouch == Init /\ [][NextTouch]_vars

\* ------------------------------------------------------------------------
\* Specification of the systems of the game: the eight systems the engine
\* and the game construct are registered in any order, a second system of
\* a registered name is offered, and frames are run once all are registered.
\* ------------------------------------------------------------------------

GameSystems ==
  { [name |-> "input",          priority |-> 5,   enabled |-> TRUE],
    [name |-> "movement",       priority |-> 10,  enabled |-> TRUE],
    [name |-> "weapon",         priority |-> 20,  enabled |-> TRUE],
    [name |-> "health",         priority |-> 40,  enabled |-> TRUE],
    [name |-> "collision",      priority |-> 50,  enabled |-> TRUE],
    [name |-> "space_invaders", priority |-> 60,  enabled |-> TRUE],
    [name |-> "lifetime",       priority |-> 90,  enabled |-> TRUE],
    [name |-> "render",         priority |-> 100, enabled |-> TRUE] }

\* Another system object named as the render system, which would run first.
RivalSystems == { [name |-> "render", priority |-> 0, enabled |-> TRUE] }

StepReg ==
  \/ \E sys \in GameSystems :
        SystemManager_registerSystem(sys) /\ UNCHANGED emVars
  \/ \E sys \in RivalSystems :
        /\ Registered(sys.name)
        /\ SystemManager_registerSystem(sys) /\ UNCHANGED emVars
  \/ Len(systems) = Cardinality(GameSystems) /\ SystemManager_updateBegin
  \/ SystemManager_updateSystem("none", 0, FALSE)
  \/ SystemManager_updateEnd

NextReg == StepReg /\ UNCHANGED <<colVars, renVars, gameVars, issued, engVars>>

SpecReg == Init /\ [][NextReg]_vars

\* ------------------------------------------------------------------------
\* Specification of a frame of the engine: the collision system is the one
\* registered system; SystemManager.update runs its pass and then the
\* cleanup.  Game code destroys entities directly between frames.
\* ------------------------------------------------------------------------

\* The iteration of update's loop whose system is the collision system: a
\* TypeError of the pass is caught by the try/catch of the loop.
SystemManager_updateCollisionSystem ==
  /\ frame.pc = "loop"
  /\ frame.i <= Len(sortedSystems)
  /\ sortedSystems[frame.i] = "collision"
  /\ SystemOf("collision").enabled
  /\ CollisionSystem_pass
  /\ frame' = [frame EXCEPT
                 !.i = @ + 1,
                 !.calls = Append(@, UpdateEvent("collision", pass'.threw))]
  /\ UNCHANGED <<systems, sortedSystems>>

FramePrefabs ==
  { Invader(96, 50), PlayerBullet(0, 98, 50), Body(102, 50) }

StepFrame ==
  \/ /\ \E components \in FramePrefabs :
          EntityManager_createEntityWithComponents(components)
     /\ UNCHANGED smVars
  \/ /\ \E id \in 1..MaxColliders : Entity_destroyCall(id)
     /\ UNCHANGED <<smVars, colVars, gameVars>>
  \/ /\ \E sys \in { g \in GameSystems : g.name = "collision" } :
          SystemManager_registerSystem(sys)
     /\ UNCHANGED <<emVars, colVars, gameVars>>
  \/ /\ systems # <<>>
     /\ SystemManager_updateBegin
     /\ UNCHANGED <<colVars, gameVars>>
  \/ pass.n < MaxPasses /\ SystemManager_updateCollisionSystem
  \/ /\ SystemManager_updateEnd
     /\ UNCHANGED <<colVars, gameVars>>

NextFrame == StepFrame /\ UNCHANGED <<renVars, issued, engVars>>

SpecFrame == Init /\ [][NextFrame]_vars

\* ------------------------------------------------------------------------
\* Specification of the broad phase: colliders of several sizes on both
\* sides of the origin, the cell size tuned between passes.
\* ------------------------------------------------------------------------

\* setSpatialCellSize(size): Math.max(32, size)
CollisionSystem_setSpatialCellSize(size) ==
  /\ cellSize' = Max(32, size)
  /\ lastOp' = Op("setSpatialCellSize", size)
  /\ UNCHANGED <<emVars, gameVars, collisionHandlers, spatialGrid,
                 collisionChecks, collisionsDetected, pass>>

GridPrefabs ==
  LET Sized(x, y, width, height) ==
        <<createPosition(World(x), World(y)),
          createCollision(World(width), World(height), {"default"}, {"default"})>>
  IN  { Sized(-4, 50, 10, 10), Sized(5, 50, 10, 10), Sized(20, 40, 40, 40),
        Sized(-40, -40, 10, 10), DisabledBody(0, 50) }

StepGrid ==
  \/ \E components \in GridPrefabs :
        EntityManager_createEntityWithComponents(components)
  \/ \E size \in {1, 32, 50} : CollisionSystem_setSpatialCellSize(size)
  \/ CollisionSystem_update

NextGrid == StepGrid /\ UNCHANGED <<smVars, renVars, issued, engVars>>

SpecGrid == Init /\ [][NextGrid]_vars

\* ------------------------------------------------------------------------
\* Specification of the screen boundaries: the walls of createBoundaries,
\* bullets of the weapon system and bullets whose collider is on the layer
\* the walls' mask names, with the handlers of the game registered or not.
\* ------------------------------------------------------------------------

BoundPrefabs ==
  LET LayerBullet(x, y) ==
        <<createPosition(World(x), World(y)),
          createVelocity(0, -300, 300),
          createBullet(10, 0, 5),
          createCollision(World(4), World(8), {"bullet"}, {"boundary"})>>
      TriggerWall(x, y) ==
        <<createPosition(World(x), World(y)),
          [createCollision(World(20), World(10), {"boundary"}, {"bullet"})
             EXCEPT !.isTrigger = TRUE]>>
  IN  { Wall(96, 50), TriggerWall(96, 50), LayerBullet(98, 50),
        PlayerBullet(0, 98, 50) }

StepBound ==
  \/ SpaceInvadersGame_setupCollisionHandlers
  \/ \E components \in BoundPrefabs :
        EntityManager_createEntityWithComponents(components)
  \/ CollisionSystem_update

NextBound == StepBound /\ UNCHANGED <<smVars, renVars, issued, engVars>>

SpecBound == Init /\ [][NextBound]_vars

\* ------------------------------------------------------------------------
\* Specification of the player's lives: the handlers of the game, the player
\* among invaders and enemy bullets, one collision pass per frame.
\* ------------------------------------------------------------------------

LivesPrefabs ==
  LET EnemyBullet(x, y) ==
        <<createPosition(World(x), World(y)),
          createVelocity(0, 300, 300),
          createBullet(10, 0, 5),
          createLifetime(5),
          [createCollision(World(4), World(8), {"enemy_bullet"}, {"player"})
             EXCEPT !.isTrigger = TRUE]>>
  IN  { Player(102, 50), Invader(96, 50), Invader(104, 54),
        EnemyBullet(100, 50) }

StepLives ==
  \/ SpaceInvadersGame_setupCollisionHandlers
  \/ \E components \in LivesPrefabs :
        EntityManager_createEntityWithComponents(components)
  \/ pass.n < MaxFrames /\ entities # <<>> /\ CollisionSystem_pass

NextLives == StepLives /\ UNCHANGED <<smVars, renVars, issued, engVars>>

SpecLives == Init /\ [][NextLives]_vars

\* ------------------------------------------------------------------------
\* Specification of a bullet and its owner: shooters and the bullets they
\* own, on the layers of the game and on the default layers.
\* ------------------------------------------------------------------------

OwnerPrefabs ==
  LET Gunner(x, y) ==
        <<createPosition(World(x), World(y)),
          createVelocity(0, 0, 250),
          createWeapon(1, 6, 300, 10),
          createCollision(World(10), World(10), {"default"}, {"default"})>>
      Shot(owner, x, y) ==
        <<createPosition(World(x), World(y)),
          createVelocity(0, -300, 300),
          createBullet(10, owner, 5),
          createLifetime(5),
          createCollision(World(4), World(8), {"default"}, {"default"})>>
  IN  { Gunner(102, 50), Player(102, 50) }
        \cup { Shot(owner, 98, 50) : owner \in Shooters }
        \cup { PlayerBullet(owner, 98, 50) : owner \in Shooters }

StepOwner ==
  \/ \E components \in OwnerPrefabs :
        EntityManager_createEntityWithComponents(components)
  \/ CollisionSystem_update

NextOwner == StepOwner /\ UNCHANGED <<smVars, renVars, issued, engVars>>

SpecOwner == Init /\ [][NextOwner]_vars

\* ------------------------------------------------------------------------
\* Specification of the components of entities: entities are created and
\* get components added and removed, two of them of the same kind.
\* ------------------------------------------------------------------------

EntityComponents == RegistryComponents \cup { createPosition(20, 20) }

StepEnt ==
  \/ EntityManager_createEntity
  \/ \E id \in CallerIds, c \in EntityComponents : Entity_addComponentCall(id, c)
  \/ \E id \in CallerIds, k \in RegistryKinds : Entity_removeComponentCall(id, k)

NextEnt == StepEnt /\ UNCHANGED <<smVars, colVars, renVars, gameVars, issued, engVars>>

SpecEnt == Init /\ [][NextEnt]_vars

\* ------------------------------------------------------------------------
\* Specification of the id counter: the calls of one EntityManager that
\* create and remove entities; issued lists the ids the creation calls
\* returned, in call order, with a 0 where clear() was called.
\* ------------------------------------------------------------------------

IdCreate ==
  \/ EntityManager_createEntity /\ UNCHANGED <<colVars, gameVars>>
  \/ \E c \in RegistryComponents :
        /\ heapNext <= MaxEntities
        /\ EntityManager_createEntityWithComponents(<<c>>)

IdRemove ==
  \/ \E id \in CallerIds : EntityManager_getEntityCall(id)
  \/ \E id \in CallerIds : EntityManager_destroyEntity(id)
  \/ \E id \in CallerIds : EntityManager_removeEntity(id)
  \/ EntityManager_cleanup

\* (a second clear() in a row is left out: it changes nothing)
IdClear ==
  /\ issued # <<>> /\ issued[Len(issued)] # 0
  /\ EntityManager_clear

StepId ==
  \/ IdCreate /\ issued' = Append(issued, nextEntityId)
  \/ IdRemove /\ UNCHANGED <<issued, colVars, gameVars>>
  \/ IdClear /\ issued' = Append(issued, 0) /\ UNCHANGED <<colVars, gameVars>>

NextId == StepId /\ UNCHANGED <<smVars, renVars, engVars>>

SpecId == Init /\ [][NextId]_vars

\* ------------------------------------------------------------------------
\* Specification of the game: the engine alone or with the game built on
\* it, one formation, player bullets placed on invaders, collision passes.
\* ------------------------------------------------------------------------

\* Where bullets are placed: on the centre of an invader, and on the right
\* edge of the first invader, which is the left edge of the second too.
\* Each is [row, col, dx] of the formation.
BulletAims(rows, cols) ==
  { [row |-> row, col |-> col, dx |-> 0] : row \in rows, col \in cols }
    \cup { [row |-> 0, col |-> 0, dx |-> GAME_CONFIG.invader.width \div 2] }

BulletOwners == IF Shooters = {} THEN {0} ELSE Shooters

BulletsOn(aims) ==
  { PlayerBullet(owner,
      GAME_CONFIG.invader.startX + aim.col * GAME_CONFIG.invader.spacingX + aim.dx,
      GAME_CONFIG.invader.startY + aim.row * GAME_CONFIG.invader.spacingY) :
      owner \in BulletOwners, aim \in aims }

\* A started game gets bullets on its formation; the engine alone gets one
\* invader of the formation and bullets on it.
GamePrefabs ==
  IF gameStarted
    THEN BulletsOn(BulletAims(0..(GAME_CONFIG.invader.rows - 1),
                              0..(GAME_CONFIG.invader.cols - 1)))
  ELSE IF entities = <<>> THEN { FormationInvader(0, 0) }
  ELSE BulletsOn(BulletAims({0}, {0}))

\* ------------------------------------------------------------------------
\* TextureManager (texture-manager.ts) and RenderSystem (render-system.ts).
\* A frame works on a record w: r (the Renderer's fields), table (the
\* TextureManager's textures and regions by name), calls (the drawSprite
\* calls made, in order), failed (the entities whose rendering threw and
\* was caught) and escaped (an error left renderEntity).
\* ------------------------------------------------------------------------

createSprite(textureName, width, height) ==
  [type |-> "sprite", textureName |-> textureName,
   width |-> width, height |-> height, zOrder |-> 0, visible |-> TRUE]

\* GraphicsEngine's constructor creates "__white"; the game loads textures
\* A and B and cuts the region "invader" out of A.
LoadedTable ==
  [textures |-> [name \in {"__white", "A", "B"} |-> [id |-> name]],
   regions  |-> [name \in {"invader"} |->
                   [texture |-> [id |-> "A"], region |-> 1]]]

\* deleteTexture(name): the texture and the regions cut out of it go
deleteTexture(table, name) ==
  IF name \notin DOMAIN table.textures THEN table
  ELSE [textures |-> [n \in DOMAIN table.textures \ {name} |->
                        table.textures[n]],
        regions  |-> [n \in { m \in DOMAIN table.regions :
                                table.regions[m].texture # table.textures[name] }
                        |-> table.regions[n]]]

\* The tables a frame can meet: as loaded, after deleteTexture("__white"),
\* after deleteTexture("A").
TextureTables ==
  { LoadedTable, deleteTexture(LoadedTable, "__white"),
    deleteTexture(LoadedTable, "A") }

renderEntity_rethrows(w, entity) ==
  LET sprite   == entity.components["sprite"]
      name     == sprite.textureName
      textures == w.table.textures
      regions  == w.table.regions
      texture  == IF name \in DOMAIN regions THEN regions[name]
                  ELSE IF name \in DOMAIN textures THEN textures[name]
                  ELSE textures["__white"]
  IN  IF ~sprite.visible THEN w
      ELSE IF name \notin DOMAIN regions \cup DOMAIN textures
                /\ "__white" \notin DOMAIN textures
        THEN [w EXCEPT !.failed = Append(@, entity.id), !.escaped = TRUE]
      ELSE [w EXCEPT
              !.r = drawSprite(@, [texture |-> texture]),
              !.calls = Append(@, [entity |-> entity.id, texture |-> texture])]

\* renderEntity: getTexture("__white") throws when the table has no such
\* texture; the catch of line 89 swallows the error.
renderEntity(w, entity) ==
  LET sprite   == entity.components["sprite"]
      name     == sprite.textureName
      textures == w.table.textures
      regions  == w.table.regions
      texture  == IF name \in DOMAIN regions THEN regions[name]
                  ELSE IF name \in DOMAIN textures THEN textures[name]
                  ELSE textures["__white"]
  IN  IF ~sprite.visible THEN w
      ELSE IF name \notin DOMAIN regions \cup DOMAIN textures
                /\ "__white" \notin DOMAIN textures
        THEN [w EXCEPT !.failed = Append(@, entity.id)]
      ELSE [w EXCEPT
              !.r = drawSprite(@, [texture |-> texture]),
              !.calls = Append(@, [entity |-> entity.id, texture |-> texture])]

\* entities.sort((a, b) => spriteA.zOrder - spriteB.zOrder), a stable sort
RECURSIVE InsertByZOrder(_, _)
InsertByZOrder(sorted, x) ==
  IF sorted = <<>> THEN <<x>>
  ELSE IF sorted[Len(sorted)].components["sprite"].zOrder
             <= x.components["sprite"].zOrder
         THEN Append(sorted, x)
         ELSE Append(InsertByZOrder(SubSeq(sorted, 1, Len(sorted) - 1), x),
                     sorted[Len(sorted)])

sortByZOrder_queryOrder(list) == list

RECURSIVE sortByZOrder(_)
sortByZOrder(list) ==
  IF list = <<>> THEN <<>>
  ELSE InsertByZOrder(sortByZOrder(SubSeq(list, 1, Len(list) - 1)),
                      list[Len(list)])

\* for (const entity of entities) this.renderEntity(entity)
RECURSIVE renderAll(_, _)
renderAll(w, list) ==
  IF list = <<>> \/ w.escaped THEN w
  ELSE renderAll(renderEntity(w, Head(list)), Tail(list))

\* RenderSystem.update: beginFrame, sort, render each, endFrame
RenderSystem_update(table) ==
  LET sorted == sortByZOrder(getEntitiesWithComponents(<<"position", "sprite">>))
      start  == [r |-> begin(RendererFields), table |-> table,
                 calls |-> <<>>, failed |-> <<>>, escaped |-> FALSE]
      w      == renderAll(start, sorted)
      bound  == [i \in 1..Len(w.calls) |->
                   getTextureFromConfig([texture |-> w.calls[i].texture]).id]
  IN  /\ SetRenderer(IF w.escaped THEN w.r ELSE flush(w.r))
      /\ script' = <<"begin">> \o bound
                     \o (IF w.escaped THEN <<>> ELSE <<"end">>)
      /\ lastOp' = Op("renderUpdate",
                      [table |-> table, calls |-> w.calls,
                       failed |-> w.failed, ended |-> ~w.escaped])
      /\ UNCHANGED emVars

StepGame ==
  \/ SpaceInvadersGame_setupCollisionHandlers
  \/ SpaceInvadersGame_startGame
  \/ \E components \in GamePrefabs :
        EntityManager_createEntityWithComponents(components)
  \/ pass.n < MaxFrames /\ entities # <<>> /\ CollisionSystem_pass

NextGame == StepGame /\ UNCHANGED <<smVars, renVars, issued, engVars>>

SpecGame == Init /\ [][NextGame]_vars

\* ------------------------------------------------------------------------
\* Specification of the renderer: frames are begun, sprites drawn with
\* textures and texture regions, the batch flushed, frames ended.
\* ------------------------------------------------------------------------

StepRen ==
  \/ Renderer_begin
  \/ \E config \in SpriteConfigs : Renderer_drawSprite(config)
  \/ Renderer_flush
  \/ Renderer_end

NextRen == StepRen /\ UNCHANGED <<emVars, smVars, colVars, gameVars, issued, engVars>>

SpecRen == Init /\ [][NextRen]_vars

\* ------------------------------------------------------------------------
\* Specification of the render system: a scene of sprites is built, some of
\* its entities are destroyed, and frames are rendered with the texture
\* table as loaded or after a texture was deleted.
\* ------------------------------------------------------------------------

Sprite(textureName, zOrder, visible) ==
  <<createPosition(100, 100),
    [createSprite(textureName, 32, 32) EXCEPT !.zOrder = zOrder,
                                              !.visible = visible]>>

SpritePrefabs ==
  { Sprite("A", 1, TRUE), Sprite("A", 0, TRUE), Sprite("invader", 0, TRUE),
    Sprite("missing", 0, TRUE), Sprite("B", 0, FALSE),
    <<createSprite("B", 32, 32)>> }

StepRS ==
  \/ /\ \E components \in SpritePrefabs :
          EntityManager_createEntityWithComponents(components)
     /\ UNCHANGED renVars
  \/ /\ \E id \in 1..MaxColliders : Entity_destroyCall(id)
     /\ UNCHANGED <<renVars, colVars, gameVars>>
  \/ /\ \E table \in TextureTables : RenderSystem_update(table)
     /\ UNCHANGED <<colVars, gameVars>>

NextRS == StepRS /\ UNCHANGED <<smVars, issued, engVars>>

SpecRS == Init /\ [][NextRS]_vars

\* ------------------------------------------------------------------------
\* The core systems (system.ts) and the input system (input-system.ts).
\* Times are in ticks, TicksPerSecond of them to a second; velocities are in
\* world units per second.  An update works on a record w: ents (the Map),
\* dead (deadEntities), nextEntityId and heapNext.
\* ------------------------------------------------------------------------

TicksPerSecond == 60

Seconds(n) == n * TicksPerSecond

\* config.maxDeltaTime: 1 / 30 of a second
maxDeltaTime == TicksPerSecond \div 30

\* Math.sqrt(vx ** 2 + vy ** 2), for the velocities whose speed is a whole
\* number
Speed(vx, vy) ==
  LET ax == IF vx < 0 THEN -vx ELSE vx
      ay == IF vy < 0 THEN -vy ELSE vy
  IN  IF ay = 0 THEN ax
      ELSE IF ax = 0 THEN ay
      ELSE CHOOSE s \in 1..(ax + ay) : s * s = ax * ax + ay * ay

\* the distance, in model units, covered at v world units per second in dt
\* ticks
Travel(v, dt) == (World(v) * dt) \div TicksPerSecond

\* the body of MovementSystem.update for one entity
MoveEntity(e, dt) ==
  LET position == e.components["position"]
      velocity == e.components["velocity"]
      speed    == Speed(velocity.vx, velocity.vy)
      limited  == IF speed > velocity.maxSpeed
                    THEN [velocity EXCEPT
                            !.vx = (@ * velocity.maxSpeed) \div speed,
                            !.vy = (@ * velocity.maxSpeed) \div speed]
                    ELSE velocity
      moved    == [position EXCEPT
                     !.previousX = position.x,
                     !.previousY = position.y,
                     !.x = @ + Travel(limited.vx, dt),
                     !.y = @ + Travel(limited.vy, dt)]
  IN  Entity_addComponent(Entity_addComponent(e, limited), moved)


MovementSystem_update(w, dt) ==
  [w EXCEPT !.ents =
     [i \in 1..Len(w.ents) |->
        IF w.ents[i].active /\ hasComponents(w.ents[i], <<"position", "velocity">>)
          THEN MoveEntity(w.ents[i], dt)
          ELSE w.ents[i]]]

\* weapon.fireRequested: the factory leaves the field out (undefined)
fireRequested(weapon) ==
  IF "fireRequested" \in DOMAIN weapon THEN weapon.fireRequested ELSE FALSE

SetField(r, name, value) ==
  [k \in DOMAIN r \cup {name} |-> IF k = name THEN value ELSE r[k]]

\* the bullet fireBullet builds for the shooter
BulletOf(shooter) ==
  LET position == shooter.components["position"]
      weapon   == shooter.components["weapon"]
  IN  <<createPosition(position.x, position.y - World(20)),
        createVelocity(0, -weapon.bulletSpeed, weapon.bulletSpeed),
        createSprite("__white", 4, 8),
        createBullet(weapon.damage, shooter.id, 5),
        createLifetime(Seconds(5)),
        createCollision(World(4), World(8), {"player_bullet"}, {"enemy"})>>

\* fireBullet(shooter): nothing without a position component
fireBullet(w, id) ==
  LET shooter == EntityIn(w.ents, id)
      weapon  == shooter.components["weapon"]
      created == CreateIn(w, BulletOf(shooter))
  IN  IF ~hasComponent(shooter, "position") THEN w
      ELSE [created EXCEPT !.ents =
              SetComponent(@, id,
                [weapon EXCEPT !.timeSinceLastShot = 0,
                               !.activeBullets = @ + 1])]

\* canFire without the test of activeBullets against maxBullets
UpdateWeapon_ignoresLimit(w, id, dt) ==
  LET weapon  == EntityIn(w.ents, id).components["weapon"]
      elapsed == weapon.timeSinceLastShot + dt
      canFire == elapsed >= weapon.fireRate
      timed   == [w EXCEPT !.ents =
                    SetComponent(@, id,
                      [weapon EXCEPT !.timeSinceLastShot = elapsed,
                                     !.canFire = canFire])]
      fired   == fireBullet(timed, id)
  IN  IF fireRequested(weapon) /\ canFire
        THEN [fired EXCEPT !.ents =
                SetComponent(@, id,
                  SetField(EntityIn(fired.ents, id).components["weapon"],
                           "fireRequested", FALSE))]
        ELSE timed

\* the request is cleared by every update, fired or not
UpdateWeapon_dropsRequest(w, id, dt) ==
  LET weapon  == EntityIn(w.ents, id).components["weapon"]
      elapsed == weapon.timeSinceLastShot + dt
      canFire == elapsed >= weapon.fireRate
                   /\ weapon.activeBullets < weapon.maxBullets
      timed   == [w EXCEPT !.ents =
                    SetComponent(@, id,
                      [weapon EXCEPT !.timeSinceLastShot = elapsed,
                                     !.canFire = canFire])]
      fired   == IF fireRequested(weapon) /\ canFire
                   THEN fireBullet(timed, id) ELSE timed
  IN  [fired EXCEPT !.ents =
         SetComponent(@, id,
           SetField(EntityIn(fired.ents, id).components["weapon"],
                    "fireRequested", FALSE))]

\* the body of WeaponSystem.update for one entity of the query
UpdateWeapon(w, id, dt) ==
  LET weapon  == EntityIn(w.ents, id).components["weapon"]
      elapsed == weapon.timeSinceLastShot + dt
      canFire == elapsed >= weapon.fireRate
                   /\ weapon.activeBullets < weapon.maxBullets
      timed   == [w EXCEPT !.ents =
                    SetComponent(@, id,
                      [weapon EXCEPT !.timeSinceLastShot = elapsed,
                                     !.canFire = canFire])]
      fired   == fireBullet(timed, id)
  IN  IF fireRequested(weapon) /\ canFire
        THEN [fired EXCEPT !.ents =
                SetComponent(@, id,
                  SetField(EntityIn(fired.ents, id).components["weapon"],
                           "fireRequested", FALSE))]
        ELSE timed

\* the ids of the active entities of the Map that have the components
IdsWith(m, componentTypes) ==
  LET Has(e) == e.active /\ hasComponents(e, componentTypes)
      found  == SelectSeq(m, Has)
  IN  [i \in 1..Len(found) |-> found[i].id]

RECURSIVE UpdateWeapons(_, _, _)
UpdateWeapons(w, ids, dt) ==
  IF ids = <<>> THEN w
  ELSE UpdateWeapons(UpdateWeapon(w, Head(ids), dt), Tail(ids), dt)

WeaponSystem_update(w, dt) == UpdateWeapons(w, IdsWith(w.ents, <<"weapon">>), dt)

\* the body of LifetimeSystem.update for one entity
ExpireEntity(w, id, dt) ==
  LET e        == EntityIn(w.ents, id)
      lifetime == [e.components["lifetime"] EXCEPT !.remaining = @ - dt]
      aged     == Entity_addComponent(e, lifetime)
  IN  IF lifetime.remaining <= 0
        THEN [w EXCEPT !.ents = MapUpdate(@, id, Entity_destroy(aged)),
                       !.dead = @ \cup {id}]
        ELSE [w EXCEPT !.ents = MapUpdate(@, id, aged)]

RECURSIVE ExpireEntities(_, _, _)
ExpireEntities(w, ids, dt) ==
  IF ids = <<>> THEN w
  ELSE ExpireEntities(ExpireEntity(w, Head(ids), dt), Tail(ids), dt)

LifetimeSystem_update(w, dt) ==
  ExpireEntities(w, IdsWith(w.ents, <<"lifetime">>), dt)

\* the body of HealthSystem.update for one entity
CheckHealth(w, id, dt) ==
  LET e      == EntityIn(w.ents, id)
      health == e.components["health"]
      left   == health.invulnerabilityTime - dt
      timed  == IF health.invulnerabilityTime > 0
                  THEN [health EXCEPT
                          !.invulnerabilityTime = left,
                          !.invulnerable = IF left <= 0 THEN FALSE ELSE @]
                  ELSE health
      after  == Entity_addComponent(e, timed)
  IN  IF health.current <= 0
        THEN [w EXCEPT !.ents = MapUpdate(@, id, Entity_destroy(after)),
                       !.dead = @ \cup {id}]
        ELSE [w EXCEPT !.ents = MapUpdate(@, id, after)]

RECURSIVE CheckHealths(_, _, _)
CheckHealths(w, ids, dt) ==
  IF ids = <<>> THEN w
  ELSE CheckHealths(CheckHealth(w, Head(ids), dt), Tail(ids), dt)

HealthSystem_update(w, dt) ==
  CheckHealths(w, IdsWith(w.ents, <<"health">>), dt)

\* the body of InputSystem.update for one entity: the actions active this
\* frame, the velocity set from them, the fire request
ReadInput(e, pressed) ==
  LET input    == [e.components["input"] EXCEPT !.activeActions = pressed]
      vx       == (IF "move_right" \in pressed THEN 200 ELSE 0)
                    - (IF "move_left" \in pressed THEN 200 ELSE 0)
      vy       == (IF "move_down" \in pressed THEN 200 ELSE 0)
                    - (IF "move_up" \in pressed THEN 200 ELSE 0)
      length   == Speed(vx, vy)
      velocity == IF vx # 0 /\ vy # 0
                    THEN [e.components["velocity"] EXCEPT
                            !.vx = (vx * 200) \div length,
                            !.vy = (vy * 200) \div length]
                    ELSE [e.components["velocity"] EXCEPT !.vx = vx, !.vy = vy]
      steered  == IF hasComponent(e, "velocity")
                    THEN Entity_addComponent(e, velocity) ELSE e
      armed    == IF hasComponent(e, "weapon")
                       /\ pressed \cap {"fire", "fire_continuous"} # {}
                    THEN Entity_addComponent(steered,
                           SetField(e.components["weapon"], "fireRequested", TRUE))
                    ELSE steered
  IN  Entity_addComponent(armed, input)

InputSystem_update(w, pressed) ==
  [w EXCEPT !.ents =
     [i \in 1..Len(w.ents) |->
        IF w.ents[i].active /\ hasComponent(w.ents[i], "input")
          THEN ReadInput(w.ents[i], pressed)
          ELSE w.ents[i]]]

createInput == [type |-> "input", activeActions |-> {}]

\* ------------------------------------------------------------------------
\* GameEngine (game-engine.ts) and the systems in the loop of
\* SystemManager.update
\* ------------------------------------------------------------------------

\* registerCoreSystems, in the order of the calls
CoreSystems ==
  <<[name |-> "movement", priority |-> 10,  enabled |-> TRUE],
    [name |-> "weapon",   priority |-> 20,  enabled |-> TRUE],
    [name |-> "health",   priority |-> 40,  enabled |-> TRUE],
    [name |-> "lifetime", priority |-> 90,  enabled |-> TRUE],
    [name |-> "render",   priority |-> 100, enabled |-> TRUE]>>

\* new GameEngine(canvas): the core systems are registered, the state is Menu
GameEngine_new ==
  /\ gameState = "loading"
  /\ systems = <<>>
  /\ systems' = CoreSystems
  /\ sortedSystems' = sortSystems(systems')
  /\ gameState' = "menu"
  /\ lastOp' = Op("newGameEngine", 0)
  /\ UNCHANGED <<frame, deltaTime, frameCount>>

\* setGameState(state); onStateChange resets the timing on a fresh start
GameEngine_setGameState(state) ==
  /\ frame.pc = "idle"
  /\ gameState' = state
  /\ deltaTime' = IF state # gameState /\ state = "running"
                       /\ gameState # "paused"
                    THEN 0 ELSE deltaTime
  /\ lastOp' = Op("setGameState", state)
  /\ UNCHANGED <<smVars, frameCount>>

GameEngine_pause ==
  /\ frame.pc = "idle"
  /\ gameState' = IF gameState = "running" THEN "paused" ELSE gameState
  /\ lastOp' = Op("pause", 0)
  /\ UNCHANGED <<smVars, deltaTime, frameCount>>

GameEngine_resume ==
  /\ frame.pc = "idle"
  /\ gameState' = IF gameState = "paused" THEN "running" ELSE gameState
  /\ deltaTime' = IF gameState = "paused" THEN 0 ELSE deltaTime
  /\ lastOp' = Op("resume", 0)
  /\ UNCHANGED <<smVars, frameCount>>

\* the frame calls systemManager.update whatever the state
GameEngine_gameLoop_alwaysUpdates(elapsed) ==
  /\ frame.pc = "idle"
  /\ UNCHANGED gameState
  /\ deltaTime' = Min(elapsed, maxDeltaTime)
  /\ frameCount' = frameCount + 1
  /\ frame' = [pc |-> "loop", i |-> 1, calls |-> <<>>, escaped |-> FALSE]
  /\ lastOp' = Op("gameLoop", gameState)
  /\ UNCHANGED <<systems, sortedSystems, emVars, renVars>>

\* gameLoop, elapsed ticks after the last frame: SystemManager.update is
\* entered when the state is Running; otherwise the render system, if one
\* is registered, is updated with deltaTime 0 and nothing else is.
GameEngine_gameLoop(elapsed) ==
  /\ frame.pc = "idle"
  /\ UNCHANGED gameState
  /\ deltaTime' = Min(elapsed, maxDeltaTime)
  /\ frameCount' = frameCount + 1
  /\ IF gameState = "running"
       THEN /\ frame' = [pc |-> "loop", i |-> 1, calls |-> <<>>,
                         escaped |-> FALSE]
            /\ lastOp' = Op("gameLoop", gameState)
            /\ UNCHANGED <<systems, sortedSystems, emVars, renVars>>
       ELSE /\ IF Registered("render")
                 THEN RenderSystem_update(LoadedTable)
                 ELSE /\ lastOp' = Op("gameLoop", gameState)
                      /\ UNCHANGED <<emVars, renVars>>
            /\ UNCHANGED smVars

\* The record the core systems work on, and the registry after the update.
Registry ==
  [ents |-> entities, dead |-> deadEntities,
   nextEntityId |-> nextEntityId, heapNext |-> heapNext]

SetRegistry(w) ==
  /\ entities' = w.ents
  /\ deadEntities' = w.dead
  /\ nextEntityId' = w.nextEntityId
  /\ heapNext' = w.heapNext

\* One iteration of the loop of SystemManager.update on a core system or on
\* the input system, whose update reads the keys pressed.
SystemManager_updateCoreSystem(pressed) ==
  /\ frame.pc = "loop"
  /\ frame.i <= Len(sortedSystems)
  /\ LET name == sortedSystems[frame.i]
     IN  /\ name \in {"input", "movement", "weapon", "health", "lifetime"}
         /\ name # "input" => pressed = {}
         /\ IF SystemOf(name).enabled
              THEN /\ SetRegistry(
                        CASE name = "input" -> InputSystem_update(Registry, pressed)
                          [] name = "movement" ->
                               MovementSystem_update(Registry, deltaTime)
                          [] name = "weapon" ->
                               WeaponSystem_update(Registry, deltaTime)
                          [] name = "health" ->
                               HealthSystem_update(Registry, deltaTime)
                          [] name = "lifetime" ->
                               LifetimeSystem_update(Registry, deltaTime))
                   /\ frame' = [frame EXCEPT
                                  !.i = @ + 1,
                                  !.calls = Append(@, UpdateEvent(name, FALSE))]
              ELSE /\ UNCHANGED emVars
                   /\ frame' = [frame EXCEPT !.i = @ + 1]
         /\ lastOp' = Op("updateSystem", name)
  /\ UNCHANGED <<systems, sortedSystems>>

\* The iteration of the loop on the render system.
SystemManager_updateRenderSystem ==
  /\ frame.pc = "loop"
  /\ frame.i <= Len(sortedSystems)
  /\ sortedSystems[frame.i] = "render"
  /\ IF SystemOf("render").enabled
       THEN /\ RenderSystem_update(LoadedTable)
            /\ frame' = [frame EXCEPT
                           !.i = @ + 1,
                           !.calls = Append(@, UpdateEvent("render", FALSE))]
       ELSE /\ frame' = [frame EXCEPT !.i = @ + 1]
            /\ lastOp' = Op("updateSystem", "render")
            /\ UNCHANGED <<emVars, renVars>>
  /\ UNCHANGED <<systems, sortedSystems>>

\* ------------------------------------------------------------------------
\* Specification of the game loop: the engine is constructed, entities that
\* move and expire are created, the state is set, paused and resumed
\* between frames, and frames run.
\* ------------------------------------------------------------------------

MaxLoopFrames == 2

LoopPrefabs ==
  { <<createPosition(World(96), World(50)), createVelocity(30, 0, 100)>>,
    <<createPosition(World(96), World(50)), createVelocity(0, -300, 150),
      createLifetime(1)>>,
    <<createPosition(World(96), World(50)), createHealth(0),
      createSprite("A", 4, 8)>> }

StepLoop ==
  \/ /\ GameEngine_new
     /\ UNCHANGED <<emVars, colVars, renVars, gameVars>>
  \/ /\ frame.pc = "idle"
     /\ frameCount = 0
     /\ \E components \in LoopPrefabs :
          EntityManager_createEntityWithComponents(components)
     /\ UNCHANGED <<smVars, renVars, engVars>>
  \/ /\ \E state \in {"running", "gameover"} : GameEngine_setGameState(state)
     /\ UNCHANGED <<emVars, colVars, renVars, gameVars>>
  \/ /\ GameEngine_pause
     /\ UNCHANGED <<emVars, colVars, renVars, gameVars>>
  \/ /\ GameEngine_resume
     /\ UNCHANGED <<emVars, colVars, renVars, gameVars>>
  \/ /\ frameCount < MaxLoopFrames
     /\ \E elapsed \in {1, 3} : GameEngine_gameLoop(elapsed)
     /\ UNCHANGED <<colVars, gameVars>>
  \/ /\ SystemManager_updateCoreSystem({})
     /\ UNCHANGED <<colVars, renVars, gameVars, engVars>>
  \/ /\ SystemManager_updateRenderSystem
     /\ UNCHANGED <<colVars, gameVars, engVars>>
  \/ /\ SystemManager_updateEnd
     /\ UNCHANGED <<colVars, renVars, gameVars, engVars>>

NextLoop == StepLoop /\ UNCHANGED issued

SpecLoop == Init /\ [][NextLoop]_vars

\* ------------------------------------------------------------------------
\* Specification of the weapons: shooters with and without a position, and
\* invaders where their bullets appear; the input system and the collision
\* system are registered with the core systems, and frames run.
\* ------------------------------------------------------------------------

WeaponPrefabs ==
  { <<createPosition(World(102), World(50)), createInput,
      createWeapon(2, 1, 300, 10),
      createCollision(World(10), World(10), {"player"}, {"enemy", "enemy_bullet"})>>,
    <<createInput, createWeapon(1, 2, 300, 10)>>,
    Invader(102, 30) }

StepWeapon ==
  \/ /\ GameEngine_new
     /\ UNCHANGED <<emVars, colVars, renVars, gameVars>>
  \/ /\ gameState = "menu"
     /\ \E sys \in { g \in GameSystems : g.name \in {"input", "collision"} } :
          SystemManager_registerSystem(sys)
     /\ UNCHANGED <<emVars, colVars, renVars, gameVars, engVars>>
  \/ /\ frame.pc = "idle"
     /\ gameState = "menu"
     /\ \E components \in WeaponPrefabs :
          EntityManager_createEntityWithComponents(components)
     /\ UNCHANGED <<smVars, renVars, engVars>>
  \/ /\ gameState = "menu"
     /\ GameEngine_setGameState("running")
     /\ UNCHANGED <<emVars, colVars, renVars, gameVars>>
  \/ /\ frameCount < MaxLoopFrames
     /\ \E elapsed \in {1, 2} : GameEngine_gameLoop(elapsed)
     /\ UNCHANGED <<colVars, gameVars>>
  \/ /\ \E pressed \in SUBSET {"fire"} : SystemManager_updateCoreSystem(pressed)
     /\ UNCHANGED <<colVars, renVars, gameVars, engVars>>
  \/ /\ SystemManager_updateCollisionSystem
     /\ UNCHANGED <<renVars, engVars>>
  \/ /\ SystemManager_updateRenderSystem
     /\ UNCHANGED <<colVars, gameVars, engVars>>
  \/ /\ SystemManager_updateEnd
     /\ UNCHANGED <<colVars, renVars, gameVars, engVars>>

NextWeapon == StepWeapon /\ UNCHANGED issued

SpecWeapon == Init /\ [][NextWeapon]_vars

\* ------------------------------------------------------------------------
\* Specification of the lifetimes: the engine is constructed, entities that
\* expire are created, game code destroys entities directly between frames,
\* and SystemManager.update runs again and again with a positive deltaTime.
\* ------------------------------------------------------------------------

\* systemManager.update(deltaTime) is entered with the given deltaTime
SystemManager_updateWith(dt) ==
  /\ SystemManager_updateBegin
  /\ deltaTime' = dt
  /\ UNCHANGED <<gameState, frameCount>>

LifePrefabs ==
  { <<createLifetime(1)>>,
    <<createLifetime(3)>>,
    <<createHealth(0), createLifetime(3)>> }

\* the steps of the frames
StepLifeFrame ==
  \/ /\ GameEngine_new
     /\ UNCHANGED <<emVars, colVars, renVars, gameVars>>
  \/ /\ systems # <<>>
     /\ \E dt \in {1, 2} : SystemManager_updateWith(dt)
     /\ UNCHANGED <<colVars, renVars, gameVars>>
  \/ /\ SystemManager_updateCoreSystem({})
     /\ UNCHANGED <<colVars, renVars, gameVars, engVars>>
  \/ /\ SystemManager_updateRenderSystem
     /\ UNCHANGED <<colVars, gameVars, engVars>>
  \/ /\ SystemManager_updateEnd
     /\ UNCHANGED <<colVars, renVars, gameVars, engVars>>

StepLife ==
  \/ /\ frame.pc = "idle"
     /\ nextEntityId <= MaxEntities
     /\ \E components \in LifePrefabs :
          EntityManager_createEntityWithComponents(components)
     /\ UNCHANGED <<smVars, renVars, engVars>>
  \/ /\ frame.pc = "idle"
     /\ \E id \in 1..MaxEntities : Entity_destroyCall(id)
     /\ UNCHANGED <<smVars, colVars, renVars, gameVars, engVars>>
  \/ StepLifeFrame

NextLife == StepLife /\ UNCHANGED issued

SpecLife == Init /\ [][NextLife]_vars

\* requestAnimationFrame keeps scheduling the loop, and a frame that has
\* begun runs to its end: the steps of the frames are taken as long as one
\* of them can be.
SpecLifeFair == SpecLife /\ WF_vars(StepLifeFrame /\ UNCHANGED issued)

\* ------------------------------------------------------------------------
\* Properties of the entity registry
\* ------------------------------------------------------------------------

\* The Entity objects allocated so far.
Allocated == 1..(heapNext - 1)

ObjInMap(o) == \E i \in 1..Len(entities) : entities[i].obj = o

EntityOfObj(o) == entities[CHOOSE i \in 1..Len(entities) : entities[i].obj = o]

\* The argument lists the queries are called with.
QueryKinds == RegistryKinds \cup {UnknownKind}

QueryLists ==
  { <<>>, <<"position">>, <<"velocity">>, <<"position", "velocity">>,
    <<"velocity", "position">>, <<UnknownKind>>, <<"position", UnknownKind>> }

Objs(s) == { s[i].obj : i \in 1..Len(s) }

\* The objects some query returns in the current state.
Returned ==
  Objs(getActiveEntities) \cup
    UNION { Objs(getEntitiesWithComponents(K)) : K \in QueryLists }

ReturnedByQuery(o) == o \in Returned

ObjsInMap == Objs(entities)

\* The objects in the Map whose id is queued for removal.
QueuedObjs == { e.obj : e \in { x \in Range(entities) : x.id \in deadEntities } }

Queued(o) == o \in QueuedObjs

C1_AfterDestroy ==
  (lastOp.name = "destroyEntity" /\ HasEntity(lastOp.arg)) =>
     LET e == getEntity(lastOp.arg)
     IN  /\ ~e.active
         /\ e.components = NoComponents
         /\ e.id \in deadEntities
         /\ ~ReturnedByQuery(e.obj)

C1_Step ==
  LET returned == Returned'
      inMap    == ObjsInMap'
      queued   == QueuedObjs'
  IN
  /\ lastOp'.name \notin {"cleanup", "removeEntity", "clear"} =>
       \A o \in QueuedObjs :
          /\ o \in queued
          /\ ~(EntityOfObj(o).active)'
          /\ o \notin returned
          /\ (lastOp'.name # "addComponent" =>
                (DOMAIN EntityOfObj(o).components)' \subseteq
                   DOMAIN EntityOfObj(o).components)
  /\ lastOp'.name = "cleanup" =>
       \A o \in QueuedObjs :
          /\ o \notin inMap
          /\ \A id \in AllIds : id = EntityOfObj(o).id => ~HasEntity(id)'
          /\ o \in lastOp'.arg
  /\ \A o \in Allocated \ ObjsInMap : o \notin inMap /\ o \notin returned

\* C1: right after destroyEntity(e.id) the entity e is returned by no query
\* but is still in the Map, inactive and without components; it stays in the
\* Map, inactive and invisible to queries, gaining no component unless
\* addComponent is called on e itself, until cleanup() (or removeEntity, clear)
\* runs; cleanup() drops it, getEntity(e.id) is then undefined, and an
\* entity that left the Map is never in the Map or in a query result again.
C1_DestroyThenCleanup == [](C1_AfterDestroy) /\ [][C1_Step]_vars

\* C1 witness: cleanup() has just dropped an entity queued by destroyEntity.
C1_Witness ==
  /\ lastOp.name = "cleanup"
  /\ lastOp.arg # {}
  /\ \A o \in lastOp.arg : ~ObjInMap(o)

\* The entities a query for the kinds of K has to return.
Qualifying(K) ==
  { e \in Range(entities) :
      e.active /\ \A k \in Range(K) : k \in DOMAIN e.components }

\* C2: getEntitiesWithComponents(...K) returns exactly the active entities
\* that hold every kind of K, each once; an unknown kind yields the empty list.
C2_QueryExact ==
  \A K \in QueryLists :
     LET r == getEntitiesWithComponents(K)
     IN  /\ Range(r) = Qualifying(K)
         /\ Cardinality(Range(r)) = Len(r)
         /\ (UnknownKind \in Range(K) => r = <<>>)

\* C2 witness: A{position}, B{position, velocity}, C{velocity}; the query for
\* position and velocity yields exactly B.
C2_Witness ==
  /\ Len(entities) = 3
  /\ \A i \in 1..3 : entities[i].active
  /\ DOMAIN entities[1].components = {"position"}
  /\ DOMAIN entities[2].components = {"position", "velocity"}
  /\ DOMAIN entities[3].components = {"velocity"}
  /\ getEntitiesWithComponents(<<"position", "velocity">>) = <<entities[2]>>
  /\ getEntitiesWithComponents(<<UnknownKind>>) = <<>>

\* ------------------------------------------------------------------------
\* Properties of the system scheduler
\* ------------------------------------------------------------------------

IsUpdateCall(ev) == ev.call = "update"

\* The system updates of the update call, in the order they were invoked.
UpdateCalls == SelectSeq(frame.calls, IsUpdateCall)

\* SystemManager.update has just returned.
UpdateReturned == frame.pc = "idle" /\ lastOp.name = "update"

EnabledNames ==
  { systems[i].name : i \in { k \in 1..Len(systems) : systems[k].enabled } }

RegistrationIndex(name) ==
  CHOOSE i \in 1..Len(systems) : systems[i].name = name

\* n1 has to run before n2: lower priority first, registration order on a tie.
RunsBefore(n1, n2) ==
  \/ SystemOf(n1).priority < SystemOf(n2).priority
  \/ /\ SystemOf(n1).priority = SystemOf(n2).priority
     /\ RegistrationIndex(n1) < RegistrationIndex(n2)

\* C3: an update call invokes update on exactly the registered, enabled
\* systems, in ascending priority, systems of equal priority in registration
\* order (so the order is a function of priorities and of the relative
\* registration order of equal-priority systems only).
C3_UpdateOrder ==
  LET u == UpdateCalls
  IN  /\ frame.pc = "loop" =>
           /\ \A i \in 1..Len(u) : u[i].name \in EnabledNames
           /\ \A i, j \in 1..Len(u) : i < j => RunsBefore(u[i].name, u[j].name)
      /\ UpdateReturned =>
           /\ { u[i].name : i \in 1..Len(u) } = EnabledNames
           /\ \A i, j \in 1..Len(u) : i < j => RunsBefore(u[i].name, u[j].name)

\* C3 witness: b, a, c are registered in this order, all enabled, and the
\* update that just returned ran c (priority 5), then b, then a.
C3_Witness ==
  /\ UpdateReturned
  /\ Names(systems) = <<"b", "a", "c">>
  /\ Names(UpdateCalls) = <<"c", "b", "a">>

\* C4: an exception of a system's update never escapes SystemManager.update,
\* and every enabled system that comes later in the order is still updated
\* in the same call.
C4_ThrowIsContained ==
  /\ ~frame.escaped
  /\ UpdateReturned =>
       \A i \in 1..Len(UpdateCalls) :
          UpdateCalls[i].threw =>
             \A n \in EnabledNames :
                RunsBefore(UpdateCalls[i].name, n) =>
                   \E j \in (i + 1)..Len(UpdateCalls) : UpdateCalls[j].name = n

\* C4 witness: the first of three systems threw and the other two ran.
C4_Witness ==
  /\ UpdateReturned
  /\ Len(UpdateCalls) = 3
  /\ UpdateCalls[1].threw
  /\ ~UpdateCalls[2].threw

CleanupCalls == { i \in 1..Len(frame.calls) : frame.calls[i].call = "cleanup" }

\* C5: an update call invokes EntityManager.cleanup exactly once, after the
\* last system update has returned or thrown and never during the loop, also
\* when systems throw; the dead set is empty when update returns.
C5_CleanupOncePerFrame ==
  /\ frame.pc = "loop" => CleanupCalls = {}
  /\ (frame.pc = "idle" /\ frame.i > 0) => CleanupCalls = {Len(frame.calls)}
  /\ UpdateReturned => deadEntities = {} /\ QueuedObjs = {}

\* C5 witness: an update in which a system threw and another destroyed an
\* entity has returned, and its cleanup dropped that entity.
C5_Witness ==
  /\ UpdateReturned
  /\ \E i \in 1..Len(UpdateCalls) : UpdateCalls[i].threw
  /\ lastOp.arg # {}
  /\ Len(frame.calls) >= 3

\* ------------------------------------------------------------------------
\* Properties of the collision engine
\* ------------------------------------------------------------------------

PassRan == lastOp.name = "collisionUpdate"

Before(id) == EntityIn(pass.before, id)

After(id) == EntityIn(entities, id)

\* The ids of the enabled colliders the pass put in the grid.
Colliders ==
  { e.id : e \in { x \in Range(pass.before) :
                     /\ x.active
                     /\ hasComponents(x, <<"position", "collision">>)
                     /\ x.components["collision"].enabled } }

LayersDisjoint(a, b) ==
  LET collisionA == Before(a).components["collision"]
      collisionB == Before(b).components["collision"]
  IN  /\ collisionA.layers \cap collisionB.mask = {}
      /\ collisionB.layers \cap collisionA.mask = {}

OverlapBefore(a, b) ==
  rectanglesIntersect(getEntityBounds(Before(a)), getEntityBounds(Before(b)))

EventsOfPair(a, b) ==
  { i \in 1..Len(pass.events) :
      {pass.events[i].entityA, pass.events[i].entityB} = {a, b} }

EventsOfEntity(a) ==
  { i \in 1..Len(pass.events) :
      a \in {pass.events[i].entityA, pass.events[i].entityB} }

ChecksOfPair(a, b) ==
  { i \in 1..Len(pass.checks) : {pass.checks[i][1], pass.checks[i][2]} = {a, b} }

\* The pass left the position and the velocity of the entity as they were.
Untouched(a) ==
  \A k \in {"position", "velocity"} :
     hasComponent(Before(a), k) =>
        /\ hasComponent(After(a), k)
        /\ After(a).components[k] = Before(a).components[k]

\* C6: after a pass, every collision event (handler call or resolution) is
\* for a pair whose layers meet the other's mask in at least one direction:
\* a pair that is disjoint both ways has no event, whatever its overlap, and
\* an entity that is in no event has the position and velocity it had.
C6_LayerFilter ==
  PassRan =>
    /\ \A a \in Colliders, b \in Colliders :
          (a # b /\ LayersDisjoint(a, b)) => EventsOfPair(a, b) = {}
    /\ \A a \in Colliders : EventsOfEntity(a) = {} => Untouched(a)

\* C6 witness: a boundary wall (mask bullet) and the player (mask enemy,
\* enemy_bullet) overlap; the pass tested the pair, raised no event
\* for it and moved neither.
C6_Witness ==
  /\ PassRan
  /\ \E a \in Colliders, b \in Colliders :
        /\ Before(a).components["collision"].layers = {"boundary"}
        /\ Before(b).components["collision"].layers = {"player"}
        /\ LayersDisjoint(a, b)
        /\ OverlapBefore(a, b)
        /\ ChecksOfPair(a, b) # {}
        /\ EventsOfPair(a, b) = {}
        /\ Untouched(a) /\ Untouched(b)

\* The cells of the grid that hold both entities.
SharedCells(a, b) ==
  { i \in 1..Len(spatialGrid) :
      {a, b} \subseteq Range(spatialGrid[i].entities) }

\* C7: in one pass no unordered pair is tested twice, so no pair has two
\* events (two handler calls), and no entity is tested against itself; the
\* check counter counts exactly the tests.
C7_PairTestedOnce ==
  /\ \A i \in 1..Len(pass.checks) : pass.checks[i][1] # pass.checks[i][2]
  /\ \A i \in 1..Len(pass.checks), j \in 1..Len(pass.checks) :
        i < j => {pass.checks[i][1], pass.checks[i][2]}
                   # {pass.checks[j][1], pass.checks[j][2]}
  /\ \A a \in Colliders, b \in Colliders : Cardinality(EventsOfPair(a, b)) <= 1
  /\ PassRan => collisionChecks = Len(pass.checks)

\* C7 witness: two colliders that share two cells of the grid were tested
\* once, and the handler of their key ran once.
C7_Witness ==
  /\ PassRan
  /\ \E a \in Colliders, b \in Colliders :
        /\ a # b
        /\ Cardinality(SharedCells(a, b)) >= 2
        /\ Cardinality(ChecksOfPair(a, b)) = 1
        /\ \E i \in EventsOfPair(a, b) : pass.events[i].handler # "none"

ZeroVelocity(e) ==
  hasComponent(e, "velocity") =>
     e.components["velocity"].vx = 0 /\ e.components["velocity"].vy = 0

\* The case of C8: the scene is two equally-sized solid colliders at rest
\* that overlap, and the pass resolved their collision.
TwoBodiesResolved(ev) ==
  LET A == Before(ev.entityA)
      B == Before(ev.entityB)
  IN  /\ Colliders = {ev.entityA, ev.entityB}
      /\ Len(pass.before) = 2
      /\ ev.outcome = "resolved"
      /\ A.components["collision"].width = B.components["collision"].width
      /\ A.components["collision"].height = B.components["collision"].height
      /\ ZeroVelocity(A) /\ ZeroVelocity(B)

\* The overlap of the two boxes along the axis of the event's normal.
OverlapAlongNormal(ev, A, B) ==
  LET boundsA == getEntityBounds(A)
      boundsB == getEntityBounds(B)
  IN  IF ev.normalX # 0
        THEN Min(boundsA.x + boundsA.width, boundsB.x + boundsB.width)
               - Max(boundsA.x, boundsB.x)
        ELSE Min(boundsA.y + boundsA.height, boundsB.y + boundsB.height)
               - Max(boundsA.y, boundsB.y)

Abs(n) == IF n < 0 THEN -n ELSE n

\* The distance of the two box centres along the axis of the normal.
GapAlongNormal(ev, A, B) ==
  IF ev.normalX # 0
    THEN Abs(A.components["position"].x - B.components["position"].x)
    ELSE Abs(A.components["position"].y - B.components["position"].y)

\* C8: two equally-sized solid colliders at rest that overlap by d along the
\* normal end the pass with zero overlap, each moved d/2 away from the other.
C8_SymmetricSeparation ==
  PassRan =>
    \A i \in 1..Len(pass.events) :
       LET ev == pass.events[i]
       IN  TwoBodiesResolved(ev) =>
             /\ OverlapAlongNormal(ev, After(ev.entityA), After(ev.entityB)) = 0
             /\ GapAlongNormal(ev, After(ev.entityA), After(ev.entityB))
                  = GapAlongNormal(ev, Before(ev.entityA), Before(ev.entityB))
                      + ev.penetration

\* C8 failing case: bodies at x = 96 and x = 102, 10 wide, overlap by 4; the
\* pass moves each by 2 towards the other and the overlap is 8.
C8_Witness ==
  /\ PassRan
  /\ \E i \in 1..Len(pass.events) :
        LET ev == pass.events[i]
        IN  /\ TwoBodiesResolved(ev)
            /\ ev.penetration = World(4)
            /\ OverlapAlongNormal(ev, After(ev.entityA), After(ev.entityB))
                 = World(8)
            /\ After(ev.entityA).components["position"].x = World(98)
            /\ After(ev.entityB).components["position"].x = World(100)

\* ------------------------------------------------------------------------
\* Properties of the renderer
\* ------------------------------------------------------------------------

TextureIds == { t.id : t \in Textures }

\* The calls between the begin() and the end() that just returned.
Drawn == SubSeq(script, 2, Len(script) - 1)

\* begin(), then only drawSprite calls, then the end() that just returned.
FrameOfSprites ==
  /\ lastOp.name = "end"
  /\ Len(script) >= 3
  /\ script[1] = "begin"
  /\ \A i \in 1..Len(Drawn) : Drawn[i] \in TextureIds

SameTexture == \A i \in 1..Len(Drawn) : Drawn[i] = Drawn[1]

\* One texture first, then the other, both present, and the sprites of
\* each within the capacity of the batch.
SortedByTexture ==
  \E k \in 1..(Len(Drawn) - 1) :
     /\ \A i \in 1..k : Drawn[i] = Drawn[1]
     /\ \A i \in (k + 1)..Len(Drawn) : Drawn[i] # Drawn[1]
     /\ k <= MAX_SPRITES
     /\ Len(Drawn) - k <= MAX_SPRITES

Alternating == \A i \in 1..(Len(Drawn) - 1) : Drawn[i] # Drawn[i + 1]

\* C9: when end() returns after begin() and N >= 1 drawSprite calls: N
\* sprites of one texture, N within the capacity, made 1 draw call; N
\* sprites of two textures sorted by texture, those of each texture within
\* the capacity (so whenever N is), made 2; N sprites that alternate between
\* the two textures made N.  In each case the N sprites were all drawn.
C9_DrawCalls ==
  FrameOfSprites =>
    /\ (SameTexture /\ Len(Drawn) <= MAX_SPRITES) =>
          renderCalls = 1 /\ spritesRendered = Len(Drawn)
    /\ SortedByTexture =>
          renderCalls = 2 /\ spritesRendered = Len(Drawn)
    /\ Alternating =>
          renderCalls = Len(Drawn) /\ spritesRendered = Len(Drawn)

\* C9 witness: begin, three sprites A, A, B, end: two draw calls, the first
\* with the two sprites of A.
C9_Witness ==
  /\ script = <<"begin", "A", "A", "B", "end">>
  /\ renderCalls = 2
  /\ Len(drawLog) = 2
  /\ Len(drawLog[1].sprites) = 2

\* C10: the sprites pending in the batch all have the texture currentTexture,
\* the cursors count them, and every draw call made covers sprites of the one
\* texture bound for it.
C10_OneTexturePerBatch ==
  /\ \A i \in 1..Len(batch) : batch[i] = currentTexture
  /\ vertexData = VERTICES_PER_SPRITE * Len(batch)
  /\ indexData = INDICES_PER_SPRITE * Len(batch)
  /\ Len(batch) <= MAX_SPRITES
  /\ \A i \in 1..Len(drawLog) :
        /\ drawLog[i].bound \in Textures
        /\ drawLog[i].sprites # <<>>
        /\ \A j \in 1..Len(drawLog[i].sprites) :
              drawLog[i].sprites[j] = drawLog[i].bound
        /\ drawLog[i].indexCount = INDICES_PER_SPRITE * Len(drawLog[i].sprites)

\* C10 witness: a draw call for two sprites of texture A was made when a
\* sprite of B arrived, and two sprites of B are pending.
C10_Witness ==
  /\ Len(batch) = 2
  /\ currentTexture = [id |-> "B"]
  /\ Len(drawLog) = 1
  /\ drawLog[1].bound = [id |-> "A"]
  /\ Len(drawLog[1].sprites) = 2

\* ------------------------------------------------------------------------
\* Properties of the game
\* ------------------------------------------------------------------------

\* The player bullets and the invaders among the colliders of the pass.
BulletsBefore ==
  { b \in Colliders : /\ hasComponent(Before(b), "bullet")
                      /\ "player_bullet" \in Before(b).components["collision"].layers }

EnemiesBefore ==
  { e \in Colliders : "enemy" \in Before(e).components["collision"].layers }

\* The scene of the pass had the one bullet b, and b overlapped the enemy e
\* and no other enemy.
OneBulletOn(b, e) ==
  /\ BulletsBefore = {b}
  /\ { x \in EnemiesBefore : OverlapBefore(b, x) } = {e}

BulletEnemyEvents ==
  { i \in 1..Len(pass.events) : pass.events[i].key = "bullet_enemy" }

\* C11: with the handlers of the game registered, a pass over a scene with
\* one player bullet that overlaps one enemy destroys that enemy and the
\* bullet, and calls the handler of the key bullet_enemy exactly once, with
\* the bullet and the enemy as the two entities of the event.
C11_BulletKillsInvader ==
  (PassRan /\ GameConstructed) =>
    \A b \in Colliders, e \in Colliders :
       OneBulletOn(b, e) =>
         /\ ~After(e).active
         /\ ~After(b).active
         /\ Cardinality(BulletEnemyEvents) = 1
         /\ \A i \in BulletEnemyEvents :
               /\ {pass.events[i].entityA, pass.events[i].entityB} = {b, e}
               /\ pass.events[i].handler = "gameBulletEnemy"

\* C11 witness: in a started game a pass ran over the formation, the player
\* and one bullet on an invader of the formation; the invader and the
\* bullet are destroyed and there is one bullet_enemy event.
C11_Witness ==
  /\ PassRan /\ GameConstructed /\ gameStarted
  /\ Cardinality(EnemiesBefore) = FormationRows * FormationCols
  /\ \E b \in Colliders, e \in Colliders :
        /\ OneBulletOn(b, e)
        /\ ~After(e).active /\ ~After(b).active
        /\ Cardinality(BulletEnemyEvents) = 1
        /\ \A inv \in Range(invaderFormation) : inv.entityId # e

CreditsOf(obj) == { i \in 1..Len(credits) : credits[i].obj = obj }

EventsOnAwarded ==
  { i \in BulletEnemyEvents :
      \E e \in {pass.events[i].entityA, pass.events[i].entityB} :
         /\ hasComponent(Before(e), "score")
         /\ Before(e).components["score"].awarded
         /\ Cardinality(CreditsOf(Before(e).obj)) = 1 }

IssuedAt == { i \in 1..Len(issued) : issued[i] # 0 }

ClearBetween(i, j) == \E k \in i..j : issued[k] = 0

\* C13 as stated: over any sequence of calls, clear() included, the ids the
\* creation calls return are strictly increasing, so none is returned twice.
C13_NeverReused ==
  \A i \in IssuedAt, j \in IssuedAt : i < j => issued[i] < issued[j]

\* C13 amended: the ids returned between two calls of clear() are strictly
\* increasing, whatever is destroyed, removed or cleaned up in between, and
\* the first id after construction or after a clear() is 1.
C13_IncreasingUntilClear ==
  /\ \A i \in IssuedAt, j \in IssuedAt :
        (i < j /\ ~ClearBetween(i, j)) => issued[i] < issued[j]
  /\ \A i \in IssuedAt : (i = 1 \/ issued[i - 1] = 0) => issued[i] = 1

\* C13 witness: an id was issued, the entity removed, a later id issued,
\* then clear() was called and the next creation returned 1 again.
C13_Witness ==
  \E i \in IssuedAt, j \in IssuedAt :
     /\ i < j /\ ClearBetween(i, j)
     /\ issued[j] = 1 /\ issued[i] = 1
     /\ i + 1 \in IssuedAt /\ issued[i + 1] = 2

\* The manager holds the entity of this id as destroyEntity leaves it.
DestroyedByManager(id) ==
  /\ HasEntity(id)
  /\ ~getEntity(id).active
  /\ getEntity(id).components = NoComponents
  /\ id \in deadEntities

\* C14: destroyEntity(id) on an entity that destroyEntity(id) already
\* destroyed changes nothing, so does destroyEntity(id) on an id the manager
\* does not hold (never created, removed, cleaned up), and so does getEntity
\* of any id; the calls end without an error whatever the id.
C14_DestroyIdempotent ==
  [][ /\ (lastOp'.name = "destroyEntity"
            /\ (DestroyedByManager(lastOp'.arg) \/ ~HasEntity(lastOp'.arg)))
         => UNCHANGED emVars
      /\ lastOp'.name = "getEntity" => UNCHANGED emVars
      /\ \A id \in CallerIds :
            /\ ENABLED EntityManager_destroyEntity(id)
            /\ ENABLED EntityManager_getEntityCall(id) ]_vars

\* C14 witness: destroyEntity was called with an id that a creation call
\* had returned and that the manager no longer holds.
C14_Witness ==
  /\ lastOp.name = "destroyEntity"
  /\ \E i \in IssuedAt : issued[i] = lastOp.arg
  /\ ~HasEntity(lastOp.arg)
  /\ lastOp.arg \notin deadEntities

\* ------------------------------------------------------------------------
\* Properties of the components of an entity
\* ------------------------------------------------------------------------

\* No two components of the list are of the same kind.
OnePerKind(components) ==
  \A i, j \in 1..Len(components) :
     i # j => components[i].type # components[j].type

\* addComponent(c) on the entity of this id: afterwards getComponent of the
\* kind of c gives c, the entity holds the kinds it held and that of c, and
\* the components of the other kinds are the ones it held.
Replaces(id, c) ==
  LET old == getEntity(id)
      new == entities'[CHOOSE i \in 1..Len(entities) : entities[i].id = id]
  IN  /\ hasComponent(new, c.type)
      /\ getComponent(new, c.type) = c
      /\ DOMAIN new.components = DOMAIN old.components \cup {c.type}
      /\ \A k \in DOMAIN old.components :
            k # c.type => getComponent(new, k) = getComponent(old, k)

\* C15: an entity never holds two components of one kind: getAllComponents
\* has no two of the same kind and each is held under its own kind; and
\* addComponent with a kind the entity holds replaces the component held.
C15_OneComponentPerKind ==
  /\ [](\A e \in Range(entities) :
          /\ OnePerKind(getAllComponents(e))
          /\ Len(getAllComponents(e)) = Cardinality(DOMAIN e.components)
          /\ \A k \in DOMAIN e.components : getComponent(e, k).type = k)
  /\ [][\A id \in CallerIds, c \in EntityComponents :
          Entity_addComponentCall(id, c) => Replaces(id, c)]_vars

\* C15 witness: addComponent was called, and an entity holds a velocity and
\* the position (20, 20), one component of each of its two kinds.
C15_Witness ==
  /\ lastOp.name = "addComponent"
  /\ \E e \in Range(entities) :
        /\ DOMAIN e.components = {"position", "velocity"}
        /\ getComponent(e, "position") = createPosition(20, 20)

\* ------------------------------------------------------------------------
\* Properties of the registration of systems
\* ------------------------------------------------------------------------

\* C16: registerSystem with a system whose name is registered throws and
\* changes nothing: the system registered under the name stays, the Map and
\* the execution order are as they were, and no initialize is called.
C16_DuplicateRejected ==
  [][lastOp'.name \in {"registerSystem", "registerSystemThrew"} =>
       \A sys \in GameSystems \cup RivalSystems :
          (Registered(sys.name) /\ SystemManager_registerSystem(sys)) =>
             /\ lastOp'.name = "registerSystemThrew"
             /\ lastOp'.arg = {}
             /\ systems' = systems
             /\ sortedSystems' = sortedSystems
             /\ frame' = frame]_vars

\* C16 witness: a registration was rejected while the render system of
\* priority 100 was registered and last in the order.
C16_Witness ==
  /\ lastOp.name = "registerSystemThrew"
  /\ Registered("render")
  /\ SystemOf("render").priority = 100
  /\ Len(sortedSystems) >= 2
  /\ sortedSystems[Len(sortedSystems)] = "render"

\* The places of the update calls of the system in the calls of the frame.
UpdatesOf(name) ==
  { i \in 1..Len(frame.calls) :
      frame.calls[i].call = "update" /\ frame.calls[i].name = name }

PlaceIn(order, name) == { i \in 1..Len(order) : order[i] = name }

\* C17: whatever the order of registration, the render system is last in
\* the execution order and movement is before collision, and in a frame the
\* update of render comes after the update of every other system and the
\* update of movement before that of collision.
C17_RenderLast ==
  /\ \A i \in PlaceIn(sortedSystems, "render") : i = Len(sortedSystems)
  /\ \A i \in PlaceIn(sortedSystems, "movement"),
        j \in PlaceIn(sortedSystems, "collision") : i < j
  /\ \A i \in UpdatesOf("render"), j \in 1..Len(frame.calls) :
        (frame.calls[j].call = "update" /\ j # i) => j < i
  /\ \A i \in UpdatesOf("movement"), j \in UpdatesOf("collision") : i < j

\* C17 witness: render was registered first and collision before movement;
\* the frame called the eight updates, render last, movement before
\* collision.
C17_Witness ==
  /\ frame.pc = "idle"
  /\ Len(frame.calls) = Cardinality(GameSystems) + 1
  /\ systems[1].name = "render"
  /\ \E i, j \in 1..Len(systems) :
        i < j /\ systems[i].name = "collision" /\ systems[j].name = "movement"
  /\ UpdatesOf("render") = {Cardinality(GameSystems)}
  /\ \E i \in UpdatesOf("movement"), j \in UpdatesOf("collision") : i < j

\* ------------------------------------------------------------------------
\* Properties of triggers, of colliders switched off and of the normal
\* ------------------------------------------------------------------------

TriggerCollider(a) == Before(a).components["collision"].isTrigger

\* The event is of a pair with a trigger collider.
TriggerPairEvent(i) ==
  \/ TriggerCollider(pass.events[i].entityA)
  \/ TriggerCollider(pass.events[i].entityB)

OnlyTriggerEvents(a) == \A i \in EventsOfEntity(a) : TriggerPairEvent(i)

HandlerOfKey(key) ==
  IF key \in DOMAIN collisionHandlers THEN collisionHandlers[key] ELSE "none"

\* C18: the event of a pair with a trigger collider goes to the handler
\* registered for its key, with isTrigger set, and is not resolved; a pair
\* that overlaps, passes the layer filter and has a trigger collider gets its
\* event, and the pass leaves the position and the velocity of its two
\* entities as they were (when no other, solid, pair moved them).
C18_TriggerNotResolved ==
  PassRan =>
    /\ \A i \in 1..Len(pass.events) :
          TriggerPairEvent(i) =>
            /\ pass.events[i].isTrigger
            /\ pass.events[i].outcome = "trigger"
            /\ pass.events[i].handler = HandlerOfKey(pass.events[i].key)
    /\ \A a \in Colliders, b \in Colliders :
          ( /\ a # b /\ ~LayersDisjoint(a, b) /\ OverlapBefore(a, b)
            /\ TriggerCollider(a) \/ TriggerCollider(b)
            /\ OnlyTriggerEvents(a) /\ OnlyTriggerEvents(b)
            /\ ~pass.threw )
          => /\ Cardinality(EventsOfPair(a, b)) = 1
             /\ Untouched(a) /\ Untouched(b)

\* C18 witness: the player stood in a trigger zone; the handler of
\* player_enemy got the event, with isTrigger set, and made the player
\* invulnerable; neither was moved.
C18_Witness ==
  /\ PassRan
  /\ \E i \in 1..Len(pass.events) :
        LET ev == pass.events[i]
            player == IF HasLayer(Before(ev.entityA), "player")
                        THEN ev.entityA ELSE ev.entityB
        IN  /\ TriggerPairEvent(i)
            /\ ev.isTrigger
            /\ ev.key = "player_enemy"
            /\ ev.handler = "defaultPlayerEnemy"
            /\ ~Before(player).components["health"].invulnerable
            /\ After(player).components["health"].invulnerable
            /\ Untouched(ev.entityA) /\ Untouched(ev.entityB)

\* The ids of the entities of the pass whose collider was switched off.
DisabledBefore ==
  { e.id : e \in { x \in Range(pass.before) :
                     /\ x.active
                     /\ hasComponents(x, <<"position", "collision">>)
                     /\ ~x.components["collision"].enabled } }

\* C19: an entity whose collider is switched off is in no cell of the grid
\* of the pass, in no pair tested, in no event (so no handler gets it), and
\* has the position and velocity it had, whatever it overlaps.
C19_DisabledSkipped ==
  PassRan =>
    \A a \in DisabledBefore :
       /\ \A i \in 1..Len(spatialGrid) : a \notin Range(spatialGrid[i].entities)
       /\ \A i \in 1..Len(pass.checks) : a \notin {pass.checks[i][1], pass.checks[i][2]}
       /\ EventsOfEntity(a) = {}
       /\ Untouched(a)

\* C19 witness: a collider switched off lay on an enabled one of layers
\* that meet; the pass had no event for it.
C19_Witness ==
  /\ PassRan
  /\ \E a \in DisabledBefore, b \in Colliders :
        /\ OverlapBefore(a, b)
        /\ ~LayersDisjoint(a, b)
        /\ EventsOfEntity(a) = {}
        /\ Untouched(a)

\* The boxes of the first event of the pass, which nothing moved before
\* the test, and their overlap on the two axes.
FirstA == getEntityBounds(Before(pass.events[1].entityA))

FirstB == getEntityBounds(Before(pass.events[1].entityB))

FirstOverlapX ==
  Min(FirstA.x + FirstA.width, FirstB.x + FirstB.width) - Max(FirstA.x, FirstB.x)

FirstOverlapY ==
  Min(FirstA.y + FirstA.height, FirstB.y + FirstB.height) - Max(FirstA.y, FirstB.y)

\* C20: the normal of an event is horizontal exactly when the overlap on x
\* is below that on y and vertical otherwise, equality included; the
\* penetration is the smaller of the two overlaps; the sign of the normal
\* is -1 when the centre of A is below that of B on the axis, else 1.
C20_NormalAxis ==
  (PassRan /\ pass.events # <<>>) =>
    LET ev == pass.events[1]
        centerAx == FirstA.x + Half(FirstA.width)
        centerAy == FirstA.y + Half(FirstA.height)
        centerBx == FirstB.x + Half(FirstB.width)
        centerBy == FirstB.y + Half(FirstB.height)
    IN  /\ ev.penetration = Min(FirstOverlapX, FirstOverlapY)
        /\ IF FirstOverlapX < FirstOverlapY
             THEN /\ ev.normalY = 0
                  /\ ev.normalX = IF centerAx < centerBx THEN -1 ELSE 1
             ELSE /\ ev.normalX = 0
                  /\ ev.normalY = IF centerAy < centerBy THEN -1 ELSE 1

\* C20 witness: the first pair of the pass overlapped by the same amount on
\* both axes, short of the whole box, and its normal is vertical.
C20_Witness ==
  /\ PassRan /\ pass.events # <<>>
  /\ FirstOverlapX = FirstOverlapY
  /\ FirstOverlapX < FirstA.width
  /\ pass.events[1].normalX = 0
  /\ pass.events[1].normalY # 0


\* ------------------------------------------------------------------------
\* Properties of the velocity response (SpecVel)
\* ------------------------------------------------------------------------

\* The event is the only one of the pass that involves either of its two
\* entities, and its resolution ran to the end.
OnlyResolution(i) ==
  /\ pass.events[i].outcome = "resolved"
  /\ EventsOfEntity(pass.events[i].entityA) = {i}
  /\ EventsOfEntity(pass.events[i].entityB) = {i}

BothHadVelocity(ev) ==
  /\ hasComponent(Before(ev.entityA), "velocity")
  /\ hasComponent(Before(ev.entityB), "velocity")

\* (vA - vB) . normal, with the velocities the pass started from
AlongNormalBefore(ev) ==
  LET vA == Before(ev.entityA).components["velocity"]
      vB == Before(ev.entityB).components["velocity"]
  IN  (vA.vx - vB.vx) * ev.normalX + (vA.vy - vB.vy) * ev.normalY

VelocityKept(a) ==
  /\ hasComponent(After(a), "velocity") = hasComponent(Before(a), "velocity")
  /\ hasComponent(Before(a), "velocity") =>
       After(a).components["velocity"] = Before(a).components["velocity"]

\* C21: a resolved collision leaves the velocity of both entities as it was
\* when either has no Velocity component or when the relative velocity along
\* the normal is separating (> 0); when both have one and they are not
\* separating, A gains impulse * normal and B loses it, with
\* impulse = -(1 + 0.8) * 0.5 * (relative velocity along the normal).
C21_VelocityResponse ==
  PassRan =>
    \A i \in 1..Len(pass.events) :
      OnlyResolution(i) =>
        LET ev == pass.events[i]
            a  == ev.entityA
            b  == ev.entityB
        IN  IF ~BothHadVelocity(ev) \/ AlongNormalBefore(ev) > 0
              THEN VelocityKept(a) /\ VelocityKept(b)
              ELSE LET nine == -(9 * AlongNormalBefore(ev))
                       vA   == Before(a).components["velocity"]
                       vB   == Before(b).components["velocity"]
                       vA2  == After(a).components["velocity"]
                       vB2  == After(b).components["velocity"]
                   IN  nine % 10 = 0 =>
                         /\ vA2.vx = vA.vx + (nine \div 10) * ev.normalX
                         /\ vA2.vy = vA.vy + (nine \div 10) * ev.normalY
                         /\ vB2.vx = vB.vx - (nine \div 10) * ev.normalX
                         /\ vB2.vy = vB.vy - (nine \div 10) * ev.normalY

\* C21 witness: a pass resolved the collision of two colliders that both
\* had a velocity and were moving apart along the normal, and both have the
\* velocity they had.
C21_Witness ==
  /\ PassRan
  /\ \E i \in 1..Len(pass.events) :
        /\ OnlyResolution(i)
        /\ BothHadVelocity(pass.events[i])
        /\ AlongNormalBefore(pass.events[i]) > 0
        /\ Before(pass.events[i].entityA).components["velocity"].vx # 0
        /\ VelocityKept(pass.events[i].entityA)
        /\ VelocityKept(pass.events[i].entityB)


\* ------------------------------------------------------------------------
\* Properties of the handler table (SpecHand)
\* ------------------------------------------------------------------------

\* Everything of the entity but its position and velocity is as it was.
OnlyMoved(a) ==
  /\ After(a).active = Before(a).active
  /\ DOMAIN After(a).components = DOMAIN Before(a).components
  /\ \A k \in DOMAIN Before(a).components \ {"position", "velocity"} :
        After(a).components[k] = Before(a).components[k]

UnhandledEvents ==
  { i \in 1..Len(pass.events) :
      /\ pass.events[i].key \notin DOMAIN collisionHandlers
      /\ EventsOfEntity(pass.events[i].entityA) = {i}
      /\ EventsOfEntity(pass.events[i].entityB) = {i} }

NoHandlerNoEffect ==
  PassRan =>
    \A i \in UnhandledEvents :
       LET ev == pass.events[i]
       IN  /\ ev.handler = "none"
           /\ OnlyMoved(ev.entityA) /\ OnlyMoved(ev.entityB)
           /\ ev.isTrigger => Untouched(ev.entityA) /\ Untouched(ev.entityB)
           /\ ev.outcome \in {"trigger", "resolved"}

UnregisterUnknown ==
  /\ lastOp'.name = "unregisterCollisionHandler"
  /\ lastOp'.arg \notin DOMAIN collisionHandlers

\* C22: a collision whose key has no handler in the table (the key "default",
\* or a key removed by unregisterCollisionHandler) changes nothing of its two
\* entities but the position and velocity the resolution sets, and nothing at
\* all when the pair is a trigger; unregisterCollisionHandler of a key that
\* is not in the table completes and leaves the table and everything else
\* as it was.
C22_UnregisteredKey ==
  /\ []NoHandlerNoEffect
  /\ [][UnregisterUnknown =>
          UNCHANGED <<emVars, colVars, gameVars>>]_vars

\* C22 witness: player_enemy was unregistered, a pass then found a player
\* over an invader, and its event was resolved without a handler.
C22_Witness ==
  /\ PassRan
  /\ "player_enemy" \notin DOMAIN collisionHandlers
  /\ \E i \in UnhandledEvents :
        /\ pass.events[i].key = "player_enemy"
        /\ pass.events[i].outcome = "resolved"


\* ------------------------------------------------------------------------
\* Properties of the render system (SpecRS)
\* ------------------------------------------------------------------------

FrameRan == lastOp.name = "renderUpdate"

\* The entities of the drawSprite calls of the frame, in call order.
DrawnIds == [i \in 1..Len(lastOp.arg.calls) |-> lastOp.arg.calls[i].entity]

WhiteLoaded == "__white" \in DOMAIN lastOp.arg.table.textures

\* The active entities with a position and a visible sprite.
VisibleSprites ==
  { e.id : e \in { x \in Range(entities) :
                     /\ x.active
                     /\ hasComponents(x, <<"position", "sprite">>)
                     /\ x.components["sprite"].visible } }

ZOrderOf(id) == getEntity(id).components["sprite"].zOrder

CreationIndex(id) == CHOOSE i \in Indices(id) : TRUE

\* C23: a frame (with the fallback texture "__white" in the texture table,
\* as GraphicsEngine's constructor leaves it) calls drawSprite once for each
\* active entity that has a position and a visible sprite and for no other
\* entity, in non-decreasing zOrder, entities of equal zOrder in the order
\* of their creation.
C23_DrawOrder ==
  (FrameRan /\ WhiteLoaded) =>
    /\ \A i \in 1..Len(DrawnIds), j \in 1..Len(DrawnIds) :
          i # j => DrawnIds[i] # DrawnIds[j]
    /\ Range(DrawnIds) = VisibleSprites
    /\ \A i \in 1..Len(DrawnIds), j \in 1..Len(DrawnIds) :
          i < j =>
            \/ ZOrderOf(DrawnIds[i]) < ZOrderOf(DrawnIds[j])
            \/ /\ ZOrderOf(DrawnIds[i]) = ZOrderOf(DrawnIds[j])
               /\ CreationIndex(DrawnIds[i]) < CreationIndex(DrawnIds[j])

\* C23 witness: a frame drew an entity before one created earlier (the sort
\* moved it) and drew two entities of equal zOrder.
C23_Witness ==
  /\ FrameRan /\ WhiteLoaded
  /\ \E i \in 1..Len(DrawnIds), j \in 1..Len(DrawnIds) :
        i < j /\ DrawnIds[i] > DrawnIds[j]
  /\ \E i \in 1..Len(DrawnIds), j \in 1..Len(DrawnIds) :
        i < j /\ ZOrderOf(DrawnIds[i]) = ZOrderOf(DrawnIds[j])


TextureNameOf(id) == getEntity(id).components["sprite"].textureName

\* The name is that of no region and of no texture of the frame's table.
UnknownName(name) ==
  /\ name \notin DOMAIN lastOp.arg.table.regions
  /\ name \notin DOMAIN lastOp.arg.table.textures

\* C24: in a frame, a visible sprite whose textureName is neither a region
\* nor a texture is drawn with the "__white" texture when the table holds
\* it; when it does not, the lookup of "__white" throws, that sprite alone is
\* skipped, every other visible sprite is still drawn, and the frame is
\* ended: the batch is flushed and every drawn sprite is counted.
C24_FallbackAndIsolation ==
  FrameRan =>
    /\ \A i \in 1..Len(DrawnIds) :
          UnknownName(TextureNameOf(DrawnIds[i])) =>
            lastOp.arg.calls[i].texture = [id |-> "__white"]
    /\ Range(lastOp.arg.failed) =
         { id \in VisibleSprites :
             UnknownName(TextureNameOf(id)) /\ ~WhiteLoaded }
    /\ Range(DrawnIds) = VisibleSprites \ Range(lastOp.arg.failed)
    /\ lastOp.arg.ended
    /\ script[Len(script)] = "end"
    /\ vertexData = 0
    /\ spritesRendered = Len(DrawnIds)

\* C24 witness: a frame met a sprite it could not find any texture for, and
\* drew a sprite that comes after it in the order of the frame.
C24_Witness ==
  /\ FrameRan
  /\ \E f \in Range(lastOp.arg.failed), d \in Range(DrawnIds) :
        \/ ZOrderOf(f) < ZOrderOf(d)
        \/ ZOrderOf(f) = ZOrderOf(d) /\ CreationIndex(f) < CreationIndex(d)
  /\ lastOp.arg.ended


\* ------------------------------------------------------------------------
\* Properties of the collision factory (SpecFac)
\* ------------------------------------------------------------------------

EnabledColliders ==
  { e \in Range(entities) :
      hasComponent(e, "collision") /\ e.components["collision"].enabled }

\* C25: the layers and the mask of every enabled collider are non-empty,
\* whatever the call of createCollision that made it; a call that leaves
\* layers or mask out gets {"default"} for it.
C25_LayersNeverEmpty ==
  /\ \A e \in EnabledColliders :
        /\ e.components["collision"].layers # {}
        /\ e.components["collision"].mask # {}
  /\ lastOp.name = "createCollision" =>
        LET made == entities[Len(entities)].components["collision"]
        IN  /\ "layers" \notin DOMAIN lastOp.arg => made.layers = {"default"}
            /\ "mask" \notin DOMAIN lastOp.arg => made.mask = {"default"}

\* C25 failing case: createCollision(10, 10, []) was called, and the
\* collider it made is enabled, with no layer, and with the default mask.
C25_Witness ==
  /\ lastOp.name = "createCollision"
  /\ DOMAIN lastOp.arg = {"width", "height", "layers"}
  /\ lastOp.arg.layers = {}
  /\ entities[Len(entities)] \in EnabledColliders
  /\ entities[Len(entities)].components["collision"].layers = {}
  /\ entities[Len(entities)].components["collision"].mask = {"default"}


\* ------------------------------------------------------------------------
\* Properties of the nearest-entity query (SpecNear)
\* ------------------------------------------------------------------------

QueryMade == lastOp.name = "getClosestEntity"

\* The active entities with a position and every kind the query lists.
NearCandidates ==
  { e \in Range(entities) :
      e.active /\ hasComponents(e, <<"position">> \o lastOp.arg.kinds) }

SquaredDistance(e) ==
  (e.components["position"].x - lastOp.arg.x)
     * (e.components["position"].x - lastOp.arg.x)
  + (e.components["position"].y - lastOp.arg.y)
     * (e.components["position"].y - lastOp.arg.y)

\* C26: getClosestEntity returns undefined when no active entity has a
\* position and every listed kind; otherwise it returns one of them, none of
\* them is closer to (x, y), and those at the same distance were created
\* after it.
C26_Closest ==
  QueryMade =>
    IF NearCandidates = {}
      THEN lastOp.arg.result = 0
      ELSE \E e \in NearCandidates :
              /\ lastOp.arg.result = e.id
              /\ \A o \in NearCandidates :
                    \/ SquaredDistance(e) < SquaredDistance(o)
                    \/ /\ SquaredDistance(e) = SquaredDistance(o)
                       /\ CreationIndex(e.id) <= CreationIndex(o.id)

\* C26 witness: the query returned an entity with a velocity although a later
\* entity with a velocity is as close and an entity without one is closer
\* or as close.
C26_Witness ==
  /\ QueryMade
  /\ lastOp.arg.kinds = <<"velocity">>
  /\ \E e \in NearCandidates, o \in NearCandidates, n \in Range(entities) :
        /\ lastOp.arg.result = e.id
        /\ o # e
        /\ SquaredDistance(o) = SquaredDistance(e)
        /\ n.active /\ n \notin NearCandidates /\ hasComponent(n, "position")
        /\ SquaredDistance(n) <= SquaredDistance(e)


\* ------------------------------------------------------------------------
\* Properties of touching colliders (SpecTouch)
\* ------------------------------------------------------------------------

\* The rectangles meet along an edge or at a corner and nowhere else.
Touching(a, b) ==
  /\ a.x <= b.x + b.width /\ b.x <= a.x + a.width
  /\ a.y <= b.y + b.height /\ b.y <= a.y + a.height
  /\ \/ a.x + a.width = b.x \/ b.x + b.width = a.x
     \/ a.y + a.height = b.y \/ b.y + b.height = a.y

\* The rectangles have a common area: positive extent on both axes.
CommonArea(a, b) ==
  /\ Min(a.x + a.width, b.x + b.width) - Max(a.x, b.x) > 0
  /\ Min(a.y + a.height, b.y + b.height) - Max(a.y, b.y) > 0

BoundsBefore(a) == getEntityBounds(Before(a))

\* C27: rectanglesIntersect gives the same answer for (a, b) and (b, a), is
\* true exactly when the rectangles have a common area, and is false for
\* rectangles that only share an edge or a corner; a pair of colliders that
\* only touch when the pass starts, and that no other collision moves,
\* produces no collision event.
C27_StrictSymmetric ==
  PassRan =>
    \A a \in Colliders, b \in Colliders :
       a # b =>
         /\ rectanglesIntersect(BoundsBefore(a), BoundsBefore(b))
              = rectanglesIntersect(BoundsBefore(b), BoundsBefore(a))
         /\ rectanglesIntersect(BoundsBefore(a), BoundsBefore(b))
              = CommonArea(BoundsBefore(a), BoundsBefore(b))
         /\ Touching(BoundsBefore(a), BoundsBefore(b)) =>
              /\ ~rectanglesIntersect(BoundsBefore(a), BoundsBefore(b))
              /\ (EventsOfEntity(a) \cup EventsOfEntity(b) = EventsOfPair(a, b))
                   => EventsOfPair(a, b) = {}

\* C27 witness: a pass tested two colliders with a common edge, and two with
\* only a common corner, and has no event for either pair.
C27_Witness ==
  /\ PassRan
  /\ \E a \in Colliders, b \in Colliders, c \in Colliders :
        /\ a # b /\ ChecksOfPair(a, b) # {}
        /\ BoundsBefore(a).x + BoundsBefore(a).width = BoundsBefore(b).x
        /\ BoundsBefore(a).y = BoundsBefore(b).y
        /\ EventsOfPair(a, b) = {}
        /\ a # c /\ ChecksOfPair(a, c) # {}
        /\ BoundsBefore(a).x + BoundsBefore(a).width = BoundsBefore(c).x
        /\ BoundsBefore(a).y + BoundsBefore(a).height = BoundsBefore(c).y
        /\ EventsOfPair(a, c) = {}


\* ------------------------------------------------------------------------
\* More properties of the renderer (SpecRen)
\* ------------------------------------------------------------------------

\* begin(), then k >= 0 drawSprite calls and nothing else, then the end()
\* that just returned.
FrameEnded ==
  /\ lastOp.name = "end"
  /\ Len(script) >= 2
  /\ script[1] = "begin"
  /\ \A i \in 1..Len(Drawn) : Drawn[i] \in TextureIds

\* ceil(n / MAX_SPRITES)
BatchesFor(n) == (n + MAX_SPRITES - 1) \div MAX_SPRITES

\* The draw calls for the sprites of list that follow a run of len sprites
\* of texture current: one batch per MAX_SPRITES sprites of each maximal run.
RECURSIVE RunCalls(_, _, _)
RunCalls(list, current, len) ==
  IF list = <<>> THEN BatchesFor(len)
  ELSE IF Head(list) = current
         THEN RunCalls(Tail(list), current, len + 1)
         ELSE BatchesFor(len) + RunCalls(Tail(list), Head(list), 1)

EmptyFlush ==
  /\ lastOp'.name \in {"flush", "end"}
  /\ vertexData = 0

\* C28: when end() returns after begin() and k drawSprite calls, renderCalls
\* is the sum over the maximal runs of sprites of one texture of
\* ceil(length / MAX_SPRITES), and spritesRendered is k (0 and 0 for
\* begin(); end()); a flush of an empty batch, by flush() or by end(),
\* issues no draw call and leaves renderCalls and spritesRendered unchanged.
C28_RunsOfTextures ==
  /\ [](FrameEnded =>
          /\ renderCalls = RunCalls(Drawn, "none", 0)
          /\ Len(drawLog) = renderCalls
          /\ spritesRendered = Len(Drawn))
  /\ [][EmptyFlush =>
          /\ renderCalls' = renderCalls
          /\ spritesRendered' = spritesRendered
          /\ drawLog' = drawLog]_vars

\* C28 witness: begin, four sprites of A (one more than the batch holds), a
\* sprite of B, end: three draw calls for two runs.
C28_Witness ==
  /\ FrameEnded
  /\ Drawn = <<"A", "A", "A", "A", "B">>
  /\ MAX_SPRITES = 3
  /\ renderCalls = 3
  /\ spritesRendered = 5


\* C29: the vertex cursor is a multiple of 4 and at most MAX_SPRITES * 4 (a
\* sprite is written at the cursor only when four more vertices fit), the
\* index cursor is 6 * (vertex cursor / 4), and no draw call was made for
\* more than the MAX_SPRITES * 6 indices that were generated.
C29_CursorsInArena ==
  /\ vertexData % VERTICES_PER_SPRITE = 0
  /\ vertexData >= 0
  /\ vertexData <= MAX_SPRITES * VERTICES_PER_SPRITE
  /\ indexData = INDICES_PER_SPRITE * (vertexData \div VERTICES_PER_SPRITE)
  /\ \A i \in 1..Len(drawLog) :
        /\ drawLog[i].indexCount > 0
        /\ drawLog[i].indexCount <= MAX_SPRITES * INDICES_PER_SPRITE

\* C29 witness: the batch is full again after a draw call was made for a
\* full batch.
C29_Witness ==
  /\ vertexData = MAX_SPRITES * VERTICES_PER_SPRITE
  /\ indexData = MAX_SPRITES * INDICES_PER_SPRITE
  /\ drawLog # <<>>
  /\ drawLog[1].indexCount = MAX_SPRITES * INDICES_PER_SPRITE


\* ------------------------------------------------------------------------
\* Properties of a frame of the engine (SpecFrame)
\* ------------------------------------------------------------------------

\* SystemManager.update has just returned.
FrameReturned == lastOp.name = "update"

\* C30: when SystemManager.update returns, the EntityManager holds no
\* inactive entity: getAllEntities() is getActiveEntities(), whoever
\* destroyed the entities and however.
C30_NoInactiveAfterFrame ==
  FrameReturned => getActiveEntities = entities

\* C30 failing case: in the frame that just returned the bullet_enemy
\* handler destroyed the bullet by bullet.destroy(); the bullet is still in
\* the Map, inactive, and no id is queued for a later cleanup.
C30_Witness ==
  /\ FrameReturned
  /\ deadEntities = {}
  /\ \E i \in 1..Len(pass.events) :
        /\ pass.events[i].key = "bullet_enemy"
        /\ pass.events[i].handler = "defaultBulletEnemy"
        /\ \E b \in {pass.events[i].entityA, pass.events[i].entityB} :
              /\ hasComponent(Before(b), "bullet")
              /\ HasEntity(b)
              /\ ~getEntity(b).active

\* ------------------------------------------------------------------------
\* A collision handler that destroys an entity of its pair.
\* ------------------------------------------------------------------------

\* the events of the last pass whose handler left an entity of the pair
\* destroyed: the entity was active when the pass began and is inactive now
DestroyingEvents ==
  { i \in 1..Len(pass.events) :
      /\ pass.events[i].handler # "none"
      /\ \E b \in {pass.events[i].entityA, pass.events[i].entityB} :
            /\ Before(b).active
            /\ ~After(b).active }

\* the candidate pairs of the grid, both entities still active, that the
\* pass did not test
UntestedLivePairs ==
  LET pairs == GridPairs(spatialGrid)
  IN  { {pairs[k][1], pairs[k][2]} : k \in
          { j \in 1..Len(pairs) :
              /\ After(pairs[j][1]).active
              /\ After(pairs[j][2]).active
              /\ ChecksOfPair(pairs[j][1], pairs[j][2]) = {} } }

\* C31: a pass in which a collision handler destroyed an entity of its pair
\* still completes without an exception, tests every remaining candidate
\* pair of live entities, and ends with the weapon bullet counts refreshed.
C31_DestroyInHandlerSafe ==
  (PassRan /\ DestroyingEvents # {}) =>
     /\ ~pass.threw
     /\ UntestedLivePairs = {}
     /\ entities = updateWeaponBulletCounts(entities)

\* C31 failing case: the bullet_enemy handler destroyed the bullet of a
\* solid pair, the resolution that follows the handler threw, and a
\* candidate pair of two entities that are still active was never tested.
C31_Witness ==
  /\ PassRan
  /\ pass.threw
  /\ \E i \in DestroyingEvents :
        /\ pass.events[i].key = "bullet_enemy"
        /\ pass.events[i].outcome = "threw"
  /\ UntestedLivePairs # {}

\* ------------------------------------------------------------------------
\* Properties of the broad phase
\* ------------------------------------------------------------------------

\* C32: after a pass, whatever the cell size (32 or more) and the sign of
\* the coordinates, any two enabled colliders whose AABBs strictly
\* overlapped when the grid was built are together in at least one cell of
\* the grid, and a pass that ran to its end tested the pair.
C32_BroadPhaseComplete ==
  PassRan =>
    /\ cellSize >= 32
    /\ \A a \in Colliders, b \in Colliders :
          (a # b /\ OverlapBefore(a, b)) =>
             /\ SharedCells(a, b) # {}
             /\ ~pass.threw => ChecksOfPair(a, b) # {}

\* C32 witness: with cells of 32 a collider left of the origin (x from -9
\* to 1) and one right of it (x from 0 to 10) overlapped, their top-left
\* corners in different cells; the grid holds them in a common cell and the
\* pass tested the pair.
C32_Witness ==
  /\ PassRan
  /\ cellSize = 32
  /\ \E a \in Colliders, b \in Colliders :
        /\ getEntityBounds(Before(a)).x < 0
        /\ getEntityBounds(Before(b)).x = 0
        /\ OverlapBefore(a, b)
        /\ SharedCells(a, b) # {}
        /\ ChecksOfPair(a, b) # {}

\* ------------------------------------------------------------------------
\* Properties of the screen boundaries
\* ------------------------------------------------------------------------

\* the pairs (bullet, boundary-layer entity) of the last pass that passed
\* the layer filter and were found overlapping when they were tested
BulletBoundaryHits ==
  { p \in Colliders \X Colliders :
      /\ hasComponent(Before(p[1]), "bullet")
      /\ "boundary" \in Before(p[2]).components["collision"].layers
      /\ ~LayersDisjoint(p[1], p[2])
      /\ EventsOfPair(p[1], p[2]) # {} }

\* C33: with the handlers of the game registered, a bullet that overlaps a
\* boundary-layer entity, the pair passing the layer filter, has the
\* handler of key "boundary" invoked for the pair in that pass and is
\* destroyed.
C33_BoundaryDestroysBullet ==
  (PassRan /\ collisionHandlers = GameHandlers) =>
     \A p \in BulletBoundaryHits :
        /\ \A i \in EventsOfPair(p[1], p[2]) :
              /\ pass.events[i].key = "boundary"
              /\ pass.events[i].handler = "gameBoundary"
        /\ ~After(p[1]).active

\* C33 failing case: the handlers of the game are registered, a bullet on
\* layer "bullet" overlapped a wall of createBoundaries and the pair passed
\* the layer filter; the key of the event is "default", no handler ran, and
\* the bullet is still active after the pass.
C33_Witness ==
  /\ PassRan
  /\ collisionHandlers = GameHandlers
  /\ \E p \in BulletBoundaryHits :
        /\ \E i \in EventsOfPair(p[1], p[2]) :
              /\ pass.events[i].key = "default"
              /\ pass.events[i].handler = "none"
        /\ After(p[1]).active

\* ------------------------------------------------------------------------
\* Properties of the player's lives
\* ------------------------------------------------------------------------

\* the events of the last pass whose handler called damagePlayer
DamagingEvents ==
  { i \in 1..Len(pass.events) :
      pass.events[i].handler \in {"gamePlayerEnemy", "gameBulletPlayer"} }

\* C35: the game ends when lives reaches 0, so lives never drops below 0,
\* whatever the collisions of the frames: damagePlayer is never called with
\* lives at 0 or less.
C35_LivesNeverNegative == lives >= 0

\* C35 failing case: the handlers of the game are registered, the player
\* overlapped two invaders in each of two passes, damagePlayer ran twice in
\* the last pass, which began with lives at 1, and lives is below 0.
C35_Witness ==
  /\ PassRan
  /\ pass.n = 2
  /\ collisionHandlers = HandlersOfGame
  /\ Cardinality(DamagingEvents) = 2
  /\ \A i \in DamagingEvents : pass.events[i].key = "player_enemy"
  /\ lives = -1

\* ------------------------------------------------------------------------
\* Properties of a bullet and its owner
\* ------------------------------------------------------------------------

\* the pairs (bullet, owner of the bullet) that overlapped when the last
\* pass began
OwnPairs ==
  { p \in Colliders \X Colliders :
      /\ hasComponent(Before(p[1]), "bullet")
      /\ Before(p[1]).components["bullet"].owner = p[2]
      /\ OverlapBefore(p[1], p[2]) }

\* C39: for a bullet that overlaps the entity that fired it, the pass
\* invokes no handler for the pair and leaves the position and the velocity
\* of the bullet and of its owner as they were.
C39_OwnerUntouched ==
  PassRan =>
    \A p \in OwnPairs :
       /\ \A i \in EventsOfPair(p[1], p[2]) : pass.events[i].handler = "none"
       /\ EventsOfEntity(p[1]) \subseteq EventsOfPair(p[1], p[2]) =>
             Untouched(p[1])
       /\ EventsOfEntity(p[2]) \subseteq EventsOfPair(p[1], p[2]) =>
             Untouched(p[2])

\* C39 failing case: a bullet and its owner, both on the default layer and
\* solid, overlapped; the pass raised one event for the pair with key "" and
\* no handler, resolved it, and moved both.
C39_Witness ==
  /\ PassRan
  /\ \E p \in OwnPairs :
        /\ EventsOfEntity(p[1]) = EventsOfPair(p[1], p[2])
        /\ EventsOfEntity(p[2]) = EventsOfPair(p[1], p[2])
        /\ \E i \in EventsOfPair(p[1], p[2]) :
              /\ pass.events[i].key = ""
              /\ pass.events[i].handler = "none"
              /\ pass.events[i].outcome = "resolved"
        /\ ~Untouched(p[1])
        /\ ~Untouched(p[2])

\* ------------------------------------------------------------------------
\* Properties of the game loop
\* ------------------------------------------------------------------------

\* C34: a frame of the game loop that finds the state other than Running
\* enters no SystemManager.update (no system's update but the render
\* system's is invoked) and leaves the Map, every entity in it, the dead set
\* and the id counter as they were, while the render system, when one is
\* registered, is updated; and SystemManager.update is entered by a frame
\* only when the state is Running.
C34_OnlyRenderUnlessRunning ==
  [][ /\ (frameCount' # frameCount /\ gameState # "running") =>
           /\ frame' = frame
           /\ UNCHANGED emVars
           /\ Registered("render") => lastOp'.name = "renderUpdate"
      /\ (frame.pc = "idle" /\ frame'.pc = "loop") => gameState = "running"
    ]_vars

\* C34 witness: the game is paused, the last step was a frame that updated
\* the render system only, and an entity that an earlier frame moved, its
\* lifetime running, is in the Map as that frame left it.
C34_Witness ==
  /\ gameState = "paused"
  /\ frame.pc = "idle"
  /\ frame.calls # <<>>
  /\ lastOp.name = "renderUpdate"
  /\ frameCount = 2
  /\ \E i \in 1..Len(entities) :
        /\ entities[i].active
        /\ hasComponents(entities[i], <<"position", "velocity">>)
        /\ entities[i].components["position"].x
             # entities[i].components["position"].previousX

\* ------------------------------------------------------------------------
\* Properties of the weapons
\* ------------------------------------------------------------------------

\* the active entities of a Map that bear a weapon
Armed(m) ==
  { e \in Range(m) : e.active /\ hasComponent(e, "weapon") }

\* the active bullet entities of a Map owned by the entity of the given id
BulletsOf(m, id) ==
  { e \in Range(m) : /\ e.active
                     /\ hasComponent(e, "bullet")
                     /\ e.components["bullet"].owner = id }

\* the entities with a bullet component that the step created for the owner
NewBulletsOf(id) ==
  { e \in Range(entities') : /\ e.id >= nextEntityId
                             /\ hasComponent(e, "bullet")
                             /\ e.components["bullet"].owner = id }

WeaponUpdates ==
  { i \in 1..Len(frame.calls) : frame.calls[i].name = "weapon" }

\* C36: at every point of every frame, each weapon-bearing entity has
\* activeBullets at most maxBullets and owns at most maxBullets active
\* bullet entities; no step creates more than one bullet for a weapon, and
\* the weapon system is updated at most once in a frame.
C36_BulletLimit ==
  /\ [](\A e \in Armed(entities) :
          /\ e.components["weapon"].activeBullets
               <= e.components["weapon"].maxBullets
          /\ Cardinality(BulletsOf(entities, e.id))
               <= e.components["weapon"].maxBullets)
  /\ [](Cardinality(WeaponUpdates) <= 1)
  /\ [][\A e \in Armed(entities) : Cardinality(NewBulletsOf(e.id)) <= 1]_vars

\* C36 witness: a shooter with maxBullets = 1 fired in the first frame, the
\* collision system recounted its bullets to 0 when the bullet was destroyed
\* on an invader, and in the second frame it has fired again: one active
\* bullet, activeBullets = 1.
C36_Witness ==
  /\ frameCount = 2
  /\ pass.n >= 1
  /\ \E e \in Armed(entities) :
        /\ e.components["weapon"].maxBullets = 1
        /\ e.components["weapon"].activeBullets = 1
        /\ Cardinality(BulletsOf(entities, e.id)) = 1
        /\ \E b \in Range(entities) :
              /\ ~b.active
              /\ b.id > e.id
              /\ b.id < nextEntityId - 1

\* the ids of the entities that are active and bear a weapon before and
\* after the step
KeptArmed ==
  { e.id : e \in Armed(entities) } \cap { e.id : e \in Armed(entities') }

WeaponOf(m, id) == EntityIn(m, id).components["weapon"]

\* the step is the update of the weapon system in the loop of a frame
WeaponStep ==
  /\ frame.pc = "loop"
  /\ frame.i <= Len(sortedSystems)
  /\ sortedSystems[frame.i] = "weapon"
  /\ frame'.i = frame.i + 1

\* canFire as the update of this frame computes it
CanFireNow(id) ==
  LET weapon == WeaponOf(entities, id)
  IN  /\ weapon.timeSinceLastShot + deltaTime >= weapon.fireRate
      /\ weapon.activeBullets < weapon.maxBullets

\* C37 as stated: a fire request that is set stays set in every step but
\* the first update of the weapon system in which canFire is true; that
\* update creates exactly one bullet for the weapon, clears the flag and
\* resets timeSinceLastShot to 0.
C37_RequestFiresOnce ==
  [][\A id \in KeptArmed :
       fireRequested(WeaponOf(entities, id)) =>
         IF WeaponStep /\ CanFireNow(id)
           THEN /\ ~fireRequested(WeaponOf(entities', id))
                /\ Cardinality(NewBulletsOf(id)) = 1
                /\ WeaponOf(entities', id).timeSinceLastShot = 0
           ELSE /\ fireRequested(WeaponOf(entities', id))
                /\ NewBulletsOf(id) = {}]_vars

\* C37, amended: a fire request that is set stays set in every step but the
\* first update of the weapon system in which canFire is true; that update
\* clears the flag, and it creates exactly one bullet and resets
\* timeSinceLastShot to 0 when the shooter has a position component, while
\* for a shooter without one it creates no bullet and lets timeSinceLastShot
\* run on.
C37_RequestLatched ==
  [][\A id \in KeptArmed :
       fireRequested(WeaponOf(entities, id)) =>
         IF WeaponStep /\ CanFireNow(id)
           THEN /\ ~fireRequested(WeaponOf(entities', id))
                /\ IF hasComponent(EntityIn(entities, id), "position")
                     THEN /\ Cardinality(NewBulletsOf(id)) = 1
                          /\ WeaponOf(entities', id).timeSinceLastShot = 0
                     ELSE /\ NewBulletsOf(id) = {}
                          /\ WeaponOf(entities', id).timeSinceLastShot
                               = WeaponOf(entities, id).timeSinceLastShot
                                   + deltaTime
           ELSE /\ fireRequested(WeaponOf(entities', id))
                /\ NewBulletsOf(id) = {}]_vars

\* C37 witness: the second frame has begun and its input system has not run
\* yet; a shooter whose cooldown of 2 ticks had not elapsed in the first
\* frame still has the request of the first frame set, and no bullet.
C37_Witness ==
  /\ frameCount = 2
  /\ frame.pc = "loop"
  /\ frame.i = 1
  /\ sortedSystems[1] = "input"
  /\ \E e \in Armed(entities) :
        /\ hasComponent(e, "position")
        /\ fireRequested(e.components["weapon"])
        /\ e.components["weapon"].timeSinceLastShot = 1
        /\ e.components["weapon"].fireRate = 2
        /\ BulletsOf(entities, e.id) = {}

\* the ids of the active entities that bear a Lifetime component
Expiring ==
  { id \in 1..MaxEntities :
      /\ HasEntity(id)
      /\ getEntity(id).active
      /\ hasComponent(getEntity(id), "lifetime") }

\* the ids of the entities destroyed through Entity.destroy(): inactive,
\* in the Map, and not queued for the cleanup
DestroyedDirectly ==
  { id \in 1..MaxEntities :
      /\ HasEntity(id)
      /\ ~getEntity(id).active
      /\ id \notin deadEntities }

\* C38: every active entity with a Lifetime component is eventually removed
\* from the EntityManager, if frames keep running with a positive deltaTime.
C38_ExpiringEventuallyRemoved ==
  \A id \in 1..MaxEntities : (id \in Expiring) ~> ~HasEntity(id)

\* The lifetime path alone: an active entity with a Lifetime component is
\* eventually removed from the Map unless it is destroyed directly.
LifetimeRemovesUnlessDestroyedDirectly ==
  \A id \in 1..MaxEntities :
    (id \in Expiring) ~> (~HasEntity(id) \/ id \in DestroyedDirectly)

\* C38 witness: an update has returned, its cleanup done, and an entity that
\* was created with a Lifetime component and destroyed directly is still in
\* the Map, inactive, without components and not queued.
C38_Witness ==
  /\ frame.pc = "idle"
  /\ lastOp.name = "update"
  /\ deltaTime > 0
  /\ Registered("lifetime")
  /\ DestroyedDirectly # {}

====
